---------------------------- MODULE Spec2Model ----------------------------
(***************************************************************************)
(* A model of the PDF Intelligence System (BKarthik7/PdfChallenge):        *)
(*   nlp_analyzer.py  NLPAnalyzer       tokenizer and relevance scorer     *)
(*   round1b.py       Round1BProcessor  section segmenter and ranking      *)
(*   round1a.py       Round1AProcessor  heading classifier, title resolver *)
(*   main.py          main              the run of one round, its failures *)
(*                                                                         *)
(* Python str values are TLA+ strings; a character is a string of length   *)
(* one.  The alphabet is ASCII: letters, digits, "_", white space and      *)
(* punctuation.  The floats of the relevance scorer are IEEE 754 doubles,  *)
(* and so are the font sizes of the spans, their average and the          *)
(* thresholds, all computed with the rounding of every operation.          *)
(***************************************************************************)
EXTENDS Integers, Sequences, FiniteSets, TLC

VARIABLES
    op,                  \* which operation has run: "init" or its name
    text, persona, job,  \* arguments of the NLPAnalyzer operations
    tokens,              \* result of _tokenize_and_clean(text)
    score,               \* result of calculate_relevance(text, persona, job)
    content,             \* argument of _identify_sections: page texts, page 1 first
    sections,            \* result of _identify_sections
    documents_content,   \* argument of _extract_relevant_sections
    all_sections,        \* its local all_sections (extraction order)
    scored_sections,     \* its local scored_sections after the sort (line 120)
    relevant_sections,   \* its result
    doc,                 \* argument of _extract_headings: [toc, pages]
    headings,            \* result of _extract_headings
    doc_title,           \* result of _extract_title(doc)
    returned_at,         \* line of the return statement _extract_title took
    env,                 \* command line and input directory of a run of main
    pc,                  \* where the run is: "main", a loop, or "exit"
    file_index,          \* number of pdf_files the loop has gone through
    processed,           \* names of the files whose extraction was started
    outputs,             \* the output directory: file name -> content
    exit_status,         \* exit status of the run once pc = "exit"
    subsections          \* result of _analyze_subsections

vars == <<op, text, persona, job, tokens, score, content, sections,
          documents_content, all_sections, scored_sections,
          relevant_sections, doc, headings, doc_title, returned_at,
          env, pc, file_index, processed, outputs, exit_status, subsections>>

title_vars == <<doc_title, returned_at>>
refiner_vars == <<subsections>>
run_vars == <<env, pc, file_index, processed, outputs, exit_status>>

\* _extract_title has not run
NoTitle == doc_title = "" /\ returned_at = 0
\* _analyze_subsections has not run
NoSubsections == subsections = <<>>
\* main has not been started
NoRun ==
    /\ env = [round |-> ""] /\ pc = "" /\ file_index = 0
    /\ processed = <<>> /\ outputs = <<>> /\ exit_status = -1

-----------------------------------------------------------------------------
(* Characters and Python str methods                                       *)

UpperLetters == "ABCDEFGHIJKLMNOPQRSTUVWXYZ"
LowerLetters == "abcdefghijklmnopqrstuvwxyz"
DigitChars == "0123456789"

CharAt(s, i) == SubSeq(s, i, i)
CharsOf(s) == {CharAt(s, i) : i \in 1..Len(s)}

UPPER == CharsOf(UpperLetters)
LOWER == CharsOf(LowerLetters)
ALPHA == UPPER \cup LOWER
DIGIT == CharsOf(DigitChars)
\* \w of the re module on the model's alphabet
WORD == ALPHA \cup DIGIT \cup {"_"}
\* the vertical tab chr(11) and the separators chr(28), chr(29), chr(30) and
\* chr(31), written as the characters themselves
ControlSpaces == ""
\* \s of the re module on a str, and the characters str.strip() removes and
\* str.split() splits at, among the ASCII characters: str.isspace()
SPACE == {" ", "\t", "\n", "\r", "\f"} \cup CharsOf(ControlSpaces)

\* str.lower() on one character
LowerOf == [c \in UPPER |->
              CharAt(LowerLetters, CHOOSE i \in 1..26 : CharAt(UpperLetters, i) = c)]
lower_char(c) == IF c \in UPPER THEN LowerOf[c] ELSE c

\* str.lower()
RECURSIVE lower(_)
lower(s) ==
    IF Len(s) = 0 THEN ""
    ELSE IF Len(s) = 1 THEN lower_char(s)
    ELSE LET h == Len(s) \div 2
         IN  lower(SubSeq(s, 1, h)) \o lower(SubSeq(s, h + 1, Len(s)))

\* The first index j >= i of s with s[j] outside class C, Len(s)+1 if none:
\* the end of the greedy match of C* at i
RunEnd(s, i, C) ==
    CHOOSE j \in i..(Len(s) + 1) :
        /\ j = Len(s) + 1 \/ CharAt(s, j) \notin C
        /\ \A k \in i..(j - 1) : CharAt(s, k) \in C

\* The last index j <= i of s with s[j] outside class C, 0 if none
RunStart(s, i, C) ==
    CHOOSE j \in 0..i :
        /\ j = 0 \/ CharAt(s, j) \notin C
        /\ \A k \in (j + 1)..i : CharAt(s, k) \in C

\* The first index j >= i of s with s[j] in class C, Len(s)+1 if none
Find(s, i, C) ==
    CHOOSE j \in i..(Len(s) + 1) :
        /\ j = Len(s) + 1 \/ CharAt(s, j) \in C
        /\ \A k \in i..(j - 1) : CharAt(s, k) \notin C

strip(s) ==
    LET a == RunEnd(s, 1, SPACE)
        b == RunStart(s, Len(s), SPACE)
    IN  IF a > Len(s) THEN "" ELSE SubSeq(s, a, b)

startswith(s, p) == Len(p) <= Len(s) /\ SubSeq(s, 1, Len(p)) = p
endswith(s, p) == Len(p) <= Len(s) /\ SubSeq(s, Len(s) - Len(p) + 1, Len(s)) = p
\* s[i] exists and is in class C
In(s, i, C) == i >= 1 /\ i <= Len(s) /\ CharAt(s, i) \in C
\* p occurs in s at index i
At(s, i, p) == i >= 1 /\ i + Len(p) - 1 <= Len(s) /\ SubSeq(s, i, i + Len(p) - 1) = p
\* the Python test  p in s
contains(s, p) == \E i \in 1..(Len(s) - Len(p) + 1) : SubSeq(s, i, i + Len(p) - 1) = p
count(s, c) == Cardinality({i \in 1..Len(s) : CharAt(s, i) = c})

\* s.split(sep) for a one-character separator
RECURSIVE split(_, _)
split(s, sep) ==
    LET j == Find(s, 1, {sep})
    IN  IF j > Len(s) THEN <<s>>
        ELSE <<SubSeq(s, 1, j - 1)>> \o split(SubSeq(s, j + 1, Len(s)), sep)

\* s[:n]
prefix(s, n) == SubSeq(s, 1, IF n < Len(s) THEN n ELSE Len(s))

-----------------------------------------------------------------------------
(* Python floats: IEEE 754 binary64, rounded to nearest, ties to even      *)
(*                                                                         *)
(* A natural number of any size is a list of limbs in base 2^14, the least *)
(* significant limb first.  A float x > 0 is [m |-> M, e |-> E] with       *)
(* x = M * 2^E, where M is a number of four limbs and 2^52 <= M < 2^53;    *)
(* 0.0 is Zero.  The floats of the scorer lie in [0, 4] and its positive   *)
(* ones above 2^-40, font sizes in [0, 2048] with the positive ones above  *)
(* 2^-40, so there is no overflow and no subnormal number.  No float is    *)
(* negative but the difference minus_one gives, which has a field neg.     *)
(* The arguments of the operators are bound to their values by             *)
(* CHOOSE r \in {... : x \in {x0}} : TRUE.                                 *)

Limb == 16384

Zero == [m |-> <<0, 0, 0, 0>>, e |-> 0]
\* 1.0 = 2^52 * 2^-52
One == [m |-> <<0, 0, 0, 1024>>, e |-> -52]

\* the list with its elements computed
AsList(seq) == seq \o <<>>

\* the limbs of the number whose i-th limb, not yet reduced, is cols[i]
\* plus the carry c of the limbs before
RECURSIVE carry_from(_, _, _)
carry_from(cols, i, c) ==
    IF i > Len(cols)
    THEN IF c = 0 THEN <<>> ELSE <<c % Limb>> \o carry_from(cols, i, c \div Limb)
    ELSE CHOOSE r \in {<<t % Limb>> \o carry_from(cols, i + 1, t \div Limb)
                       : t \in {cols[i] + c}} : TRUE

carry(cols0) == CHOOSE r \in {carry_from(cols, 1, 0) : cols \in {AsList(cols0)}} : TRUE

\* n * f for a number n and an int f <= 2^14
times_small(n0, f0) ==
    CHOOSE r \in {carry([i \in 1..Len(n) |-> n[i] * f]) : n \in {n0}, f \in {f0}} : TRUE

zeros(k) == [i \in 1..k |-> 0]

\* the number of bits of a limb
limb_bits(x) == CHOOSE k \in 0..14 : x < 2^k /\ (k = 0 \/ 2^(k - 1) <= x)

\* the index of the most significant limb that is not 0, or 0
top_limb(n) ==
    IF \A i \in 1..Len(n) : n[i] = 0 THEN 0
    ELSE CHOOSE i \in 1..Len(n) : n[i] # 0 /\ \A j \in (i + 1)..Len(n) : n[j] = 0

bit_length(n0) ==
    CHOOSE r \in
        {IF top = 0 THEN 0 ELSE 14 * (top - 1) + limb_bits(n[top])
         : n \in {n0}, top \in {top_limb(n0)}} : TRUE

\* the float nearest to (n + s) * 2^e, for a number n of 53 + 14 k bits and
\* 0 <= s < 1, s = 0 iff sticky = 0; a tie goes to the even mantissa
round_aligned(n0, k0, sticky, e0) ==
    CHOOSE r \in
        {IF k <= 0
         THEN [m |-> zeros(-k) \o SubSeq(n, 1, 4 + k), e |-> e + 14 * k]
         ELSE LET q == SubSeq(n, k + 1, k + 4)
                  low_zero == sticky = 0 /\ \A i \in 1..(k - 1) : n[i] = 0
                  round_up == \/ n[k] > Limb \div 2
                              \/ n[k] = Limb \div 2 /\ (~low_zero \/ q[1] % 2 = 1)
                  up == carry(<<q[1] + 1, q[2], q[3], q[4]>>)
              IN  IF ~round_up THEN [m |-> q, e |-> e + 14 * k]
                  ELSE IF up[4] = 2048
                  THEN [m |-> <<0, 0, 0, 1024>>, e |-> e + 14 * k + 1]
                  ELSE [m |-> up, e |-> e + 14 * k]
         : n \in {n0}, k \in {k0}, e \in {e0}} : TRUE

\* the float nearest to (n + s) * 2^e for a number n > 0 of at most 165 bits
\* (of at least 55 bits if sticky = 1): n is shifted to the left by the
\* least t that makes its number of bits 53 + 14 k
round_to_float(n0, sticky, e0) ==
    CHOOSE r \in
        {round_aligned(times_small(n, 2^t), (bl + t - 53) \div 14, sticky, e - t)
         : n \in {n0}, e \in {e0}, bl \in {bit_length(n0)},
           t \in {(165 - bit_length(n0)) % 14}} : TRUE

\* the k-th limb, not yet reduced, of the product of two numbers of four limbs
column(a, b, k) ==
    LET term(i) == IF k + 1 - i \in 1..4 THEN a[i] * b[k + 1 - i] ELSE 0
    IN  term(1) + term(2) + term(3) + term(4)

\* x * y
FMul(x0, y0) ==
    CHOOSE r \in
        {IF x = Zero \/ y = Zero THEN Zero
         ELSE round_to_float(carry([k \in 1..7 |-> column(x.m, y.m, k)]), 0, x.e + y.e)
         : x \in {x0}, y \in {y0}} : TRUE

\* hi + lo for hi.e >= lo.e, both positive: a lo below half a unit in the
\* last place of hi is lost, otherwise the exact sum is rounded
add_aligned(hi, lo) ==
    IF hi.e - lo.e >= 54 THEN hi
    ELSE CHOOSE r \in
        {round_to_float(
            carry([i \in 1..Len(shifted) |->
                      shifted[i] + (IF i <= 4 THEN lo.m[i] ELSE 0)]), 0, lo.e)
         : shifted \in {zeros((hi.e - lo.e) \div 14)
                        \o times_small(hi.m, 2^((hi.e - lo.e) % 14))}} : TRUE

\* x + y
FAdd(x0, y0) ==
    CHOOSE r \in
        {IF x = Zero THEN y
         ELSE IF y = Zero THEN x
         ELSE IF x.e >= y.e THEN add_aligned(x, y) ELSE add_aligned(y, x)
         : x \in {x0}, y \in {y0}} : TRUE

\* (a * 2^(14 k)) % b
RECURSIVE remainder_at(_, _, _)
remainder_at(a, b, k) ==
    IF k = 0 THEN a % b ELSE (remainder_at(a, b, k - 1) * Limb) % b

\* a / b for ints a >= 0 and 0 < b < 2^17: the quotient of a * 2^84 by b,
\* its limbs got by long division, is rounded; sticky says that the division
\* left a remainder
truediv(a0, b0) ==
    CHOOSE r \in
        {IF a = 0 THEN Zero
         ELSE round_to_float(
                carry([i \in 1..7 |->
                          IF i = 7 THEN a \div b
                          ELSE (remainder_at(a, b, 6 - i) * Limb) \div b]),
                IF remainder_at(a, b, 6) = 0 THEN 0 ELSE 1, -84)
         : a \in {a0}, b \in {b0}} : TRUE

\* x / 2
FHalf(x0) ==
    CHOOSE r \in {IF x = Zero THEN Zero ELSE [x EXCEPT !.e = @ - 1] : x \in {x0}} : TRUE

\* x < y
FLess(x0, y0) ==
    \E x \in {x0}, y \in {y0} :
        IF y = Zero THEN FALSE
        ELSE IF x = Zero THEN TRUE
        ELSE IF x.e # y.e THEN x.e < y.e
        ELSE \E i \in 1..4 : /\ x.m[i] < y.m[i]
                             /\ \A j \in (i + 1)..4 : x.m[j] = y.m[j]
FLeq(x, y) == ~FLess(y, x)
\* min(x, y)
FMin(x0, y0) ==
    CHOOSE r \in {IF FLess(y, x) THEN y ELSE x : x \in {x0}, y \in {y0}} : TRUE

\* float(n) for an int 0 <= n < 2048, which is exact
Float(n) ==
    IF n = 0 THEN Zero
    ELSE [m |-> <<0, 0, 0, n * 2^(11 - limb_bits(n))>>, e |-> limb_bits(n) - 53]

\* the limbs of a - b for numbers a >= b, c the borrow of the limbs before
RECURSIVE borrow_from(_, _, _, _)
borrow_from(a, b, i, c) ==
    IF i > Len(a) THEN <<>>
    ELSE CHOOSE r \in
        {IF t < 0 THEN <<t + Limb>> \o borrow_from(a, b, i + 1, 1)
         ELSE <<t>> \o borrow_from(a, b, i + 1, 0)
         : t \in {a[i] - (IF i <= Len(b) THEN b[i] ELSE 0) - c}} : TRUE

\* x - y for x >= y >= 0 with x below 2^100 y: the exact difference is
\* rounded
FSub(x0, y0) ==
    CHOOSE r \in
        {IF y = Zero THEN x
         ELSE IF x = y THEN Zero
         ELSE CHOOSE d \in
            {round_to_float(borrow_from(shifted, y.m, 1, 0), 0, y.e)
             : shifted \in {zeros((x.e - y.e) \div 14)
                            \o times_small(x.m, 2^((x.e - y.e) % 14))}} : TRUE
         : x \in {x0}, y \in {y0}} : TRUE

\* x - 1: a float, or for x < 1 the float 1 - x with the field neg
minus_one(x0) ==
    CHOOSE r \in
        {IF FLess(x, One)
         THEN CHOOSE d \in {[m |-> a.m, e |-> a.e, neg |-> TRUE] : a \in {FSub(One, x)}} : TRUE
         ELSE FSub(x, One)
         : x \in {x0}} : TRUE

\* x >= y for a float x >= 0 and a float y or a result of minus_one
FGeq(x, y) == IF "neg" \in DOMAIN y THEN TRUE ELSE FLeq(y, x)

\* the remainder left by the limbs of n above the i-th in the long
\* division of n by b
RECURSIVE rem_above(_, _, _)
rem_above(n, b, i) ==
    IF i >= Len(n) THEN 0 ELSE (rem_above(n, b, i + 1) * Limb + n[i + 1]) % b

\* x / b for a float x and an int 0 < b <= 2^16: the quotient of the
\* mantissa times 2^42 by b, its limbs got by long division, is rounded;
\* sticky says that the division left a remainder
FDivInt(x0, b0) ==
    CHOOSE r \in
        {IF x = Zero THEN Zero
         ELSE CHOOSE q \in
            {round_to_float(
                AsList([i \in 1..7 |-> (rem_above(n, b, i) * Limb + n[i]) \div b]),
                IF (rem_above(n, b, 1) * Limb + n[1]) % b = 0 THEN 0 ELSE 1,
                x.e - 42)
             : n \in {zeros(3) \o x.m}} : TRUE
         : x \in {x0}, b \in {b0}} : TRUE

\* math.log(10) = 2.302585092994046 = 0x1.26bb1bbb55516p+1
LOG10 == [m |-> <<5398, 11989, 15131, 1178>>, e |-> -51]

-----------------------------------------------------------------------------
(* nlp_analyzer.py: NLPAnalyzer                                            *)

\* _load_stop_words
stop_words ==
    {"a", "an", "and", "are", "as", "at", "be", "by", "for", "from",
     "has", "he", "in", "is", "it", "its", "of", "on", "that", "the",
     "to", "was", "will", "with", "would", "have", "had", "been", "this",
     "these", "they", "were", "not", "or", "but", "can", "could", "should",
     "may", "might", "must", "shall", "do", "does", "did", "get", "got",
     "make", "made", "take", "took", "come", "came", "go", "went", "see",
     "saw", "know", "knew", "think", "thought", "say", "said", "tell",
     "told", "give", "gave", "find", "found", "work", "worked", "call",
     "called", "try", "tried", "ask", "asked", "need", "needed", "feel",
     "felt", "become", "became", "leave", "left", "put", "set"}

\* re.findall(r'\b[a-zA-Z]{2,}\b', s).  A match starts at a letter that
\* follows a non-word character (or the start) and is the whole run of
\* letters, of length >= 2, up to a non-word character (or the end): a run
\* that touches a digit or "_" has no \b there and gives no match.  The
\* matches are the runs at the indices that pass the test, in order.
findall_words(s) ==
    LET IsMatchStart(a) ==
            /\ CharAt(s, a) \in ALPHA
            /\ (a = 1 \/ CharAt(s, a - 1) \notin WORD)
            /\ RunEnd(s, a, ALPHA) - a >= 2
            /\ ~In(s, RunEnd(s, a, ALPHA), WORD)
        starts == SelectSeq([i \in 1..Len(s) |-> i], IsMatchStart)
    IN  [k \in 1..Len(starts) |->
            SubSeq(s, starts[k], RunEnd(s, starts[k], ALPHA) - 1)]

\* _tokenize_and_clean without the test len(token) > 2
_tokenize_and_clean_keeping_short(s) ==
    LET Keep(t) == t \notin stop_words
    IN  SelectSeq(findall_words(lower(s)), Keep)

_tokenize_and_clean(s) ==
    LET Keep(t) == t \notin stop_words /\ Len(t) > 2
    IN  SelectSeq(findall_words(lower(s)), Keep)

Range(seq) == {seq[i] : i \in 1..Len(seq)}

_calculate_token_overlap(text_tokens, target_tokens) ==
    IF target_tokens = <<>> THEN Zero
    ELSE LET text_set == Range(text_tokens)
             target_set == Range(target_tokens)
             intersection == text_set \cap target_set
             union == text_set \cup target_set
             jaccard == truediv(Cardinality(intersection), Cardinality(union))
             target_coverage == truediv(Cardinality(intersection), Cardinality(target_set))
         IN  FHalf(FAdd(jaccard, target_coverage))

\* the elements of a list, each once, in the order of their first occurrence
distinct(list) ==
    LET First(i) == \A j \in 1..(i - 1) : list[j] # list[i]
        firsts == SelectSeq([i \in 1..Len(list) |-> i], First)
    IN  [k \in 1..Len(firsts) |-> list[firsts[k]]]

\* the orders of the elements of a list of distinct elements
RECURSIVE permutations(_)
permutations(list) ==
    IF list = <<>> THEN {<<>>}
    ELSE UNION {{<<list[i]>> \o rest :
                    rest \in permutations(SubSeq(list, 1, i - 1)
                                          \o SubSeq(list, i + 1, Len(list)))}
                : i \in 1..Len(list)}

\* the orders in which  for term in set(key_terms)  can visit the terms: the
\* order follows the hashes of the strings, which differ from one
\* interpreter process to the next (hash randomization), and is the same for
\* every call of one process
set_iterations(key_terms) == permutations(AsList(distinct(key_terms)))

\* Counter(text_tokens)[term]
token_count(text_tokens, term) ==
    Cardinality({i \in 1..Len(text_tokens) : text_tokens[i] = term})

\* lines 112-118: score after the loop has visited the first k terms
RECURSIVE tfidf_sum(_, _, _)
tfidf_sum(text_tokens, terms, k) ==
    IF k = 0 THEN Zero
    ELSE IF token_count(text_tokens, terms[k]) > 0
    THEN FAdd(tfidf_sum(text_tokens, terms, k - 1),
              FMul(truediv(token_count(text_tokens, terms[k]), Len(text_tokens)),
                   LOG10))
    ELSE tfidf_sum(text_tokens, terms, k - 1)

\* lines 103-120, the loop of line 113 visiting the terms of key_terms in
\* the order they have in the list order
_calculate_tfidf_score(text_tokens0, key_terms0, order) ==
    CHOOSE r \in
        {IF key_terms = <<>> \/ text_tokens = <<>> THEN Zero
         ELSE FMin(tfidf_sum(text_tokens, terms, Len(terms)), One)
         : text_tokens \in {text_tokens0}, key_terms \in {key_terms0},
           terms \in {SelectSeq(order, LAMBDA t : t \in Range(key_terms0))}} : TRUE

domain_names == <<"researcher", "student", "analyst", "business", "technical">>

domain_keywords ==
    [researcher |-> <<"research", "study", "analysis", "methodology", "results",
                      "findings", "experiment", "data", "hypothesis", "conclusion">>,
     student    |-> <<"learn", "study", "understand", "concept", "theory",
                      "example", "practice", "exercise", "homework", "exam">>,
     analyst    |-> <<"analysis", "data", "trend", "performance", "metrics",
                      "insights", "report", "statistics", "evaluation", "assessment">>,
     business   |-> <<"strategy", "market", "revenue", "growth", "profit",
                      "customer", "sales", "business", "company", "investment">>,
     technical  |-> <<"system", "implementation", "design", "architecture",
                      "technology", "development", "software", "hardware",
                      "algorithm", "code">>]

\* relevant_keywords after the loop over domain_keywords.items(), from domain i on
RECURSIVE domain_list(_, _)
domain_list(persona_lower, i) ==
    IF i > Len(domain_names) THEN <<>>
    ELSE (IF contains(persona_lower, domain_names[i])
          THEN domain_keywords[domain_names[i]] ELSE <<>>)
         \o domain_list(persona_lower, i + 1)

_calculate_domain_relevance(txt, pers, jb) ==
    LET text_lower == lower(txt)
        detected == domain_list(lower(pers), 1)
        relevant_keywords ==
            IF detected = <<>> THEN _tokenize_and_clean(jb) ELSE detected
        keyword_matches ==
            Cardinality({i \in 1..Len(relevant_keywords) :
                            contains(text_lower, relevant_keywords[i])})
    IN  IF relevant_keywords # <<>>
        THEN FMin(truediv(keyword_matches, Len(relevant_keywords)), One)
        ELSE Zero

\* the sum with the same weight for the persona and the job
relevance_sum_equal_weights(persona_score, job_score, tfidf_score, domain_score) ==
    FAdd(FAdd(FAdd(FMul(persona_score, truediv(35, 100)),
                   FMul(job_score, truediv(35, 100))),
              FMul(tfidf_score, truediv(2, 10))),
         FMul(domain_score, truediv(1, 10)))

\* the sum with every weight forgotten
relevance_sum_unweighted(persona_score, job_score, tfidf_score, domain_score) ==
    FAdd(FAdd(FAdd(persona_score, job_score), tfidf_score), domain_score)

\* the weighted sum of lines 59-64, added from left to right; the floats
\* 0.3, 0.4, 0.2 and 0.1 are the floats nearest to 3/10, 4/10, 2/10 and 1/10
relevance_sum(persona_score, job_score, tfidf_score, domain_score) ==
    FAdd(FAdd(FAdd(FMul(persona_score, truediv(3, 10)),
                   FMul(job_score, truediv(4, 10))),
              FMul(tfidf_score, truediv(2, 10))),
         FMul(domain_score, truediv(1, 10)))

\* calculate_relevance with the weights and the final cap forgotten
calculate_relevance_unweighted(txt, pers, jb, order) ==
    IF txt = "" \/ strip(txt) = "" THEN Zero
    ELSE LET text_tokens == _tokenize_and_clean(lower(txt))
             persona_tokens == _tokenize_and_clean(lower(pers))
             job_tokens == _tokenize_and_clean(lower(jb))
         IN  IF text_tokens = <<>> THEN Zero
             ELSE relevance_sum_unweighted(
                      _calculate_token_overlap(text_tokens, persona_tokens),
                      _calculate_token_overlap(text_tokens, job_tokens),
                      _calculate_tfidf_score(text_tokens, persona_tokens \o job_tokens,
                                             order),
                      _calculate_domain_relevance(txt, pers, jb))

\* calculate_relevance without the early return of lines 44-45
calculate_relevance_no_token_guard(txt, pers, jb, order) ==
    IF txt = "" \/ strip(txt) = "" THEN Zero
    ELSE LET text_tokens == _tokenize_and_clean(lower(txt))
             persona_tokens == _tokenize_and_clean(lower(pers))
             job_tokens == _tokenize_and_clean(lower(jb))
             persona_score == _calculate_token_overlap(text_tokens, persona_tokens)
             job_score == _calculate_token_overlap(text_tokens, job_tokens)
             key_terms == persona_tokens \o job_tokens
             tfidf_score == _calculate_tfidf_score(text_tokens, key_terms, order)
             domain_score == _calculate_domain_relevance(txt, pers, jb)
         IN  FMin(relevance_sum(persona_score, job_score, tfidf_score, domain_score), One)

\* calculate_relevance with the persona tokens used where lines 49 and 52
\* use the job tokens
calculate_relevance_job_as_persona(txt, pers, jb, order) ==
    IF txt = "" \/ strip(txt) = "" THEN Zero
    ELSE LET text_tokens == _tokenize_and_clean(lower(txt))
             persona_tokens == _tokenize_and_clean(lower(pers))
         IN  IF text_tokens = <<>> THEN Zero
             ELSE LET persona_score == _calculate_token_overlap(text_tokens, persona_tokens)
                      job_score == _calculate_token_overlap(text_tokens, persona_tokens)
                      key_terms == persona_tokens \o persona_tokens
                      tfidf_score == _calculate_tfidf_score(text_tokens, key_terms, order)
                      domain_score == _calculate_domain_relevance(txt, pers, jb)
                  IN  FMin(relevance_sum(persona_score, job_score,
                                         tfidf_score, domain_score), One)

calculate_relevance(txt, pers, jb, order) ==
    IF txt = "" \/ strip(txt) = "" THEN Zero
    ELSE LET text_tokens == _tokenize_and_clean(lower(txt))
             persona_tokens == _tokenize_and_clean(lower(pers))
             job_tokens == _tokenize_and_clean(lower(jb))
         IN  IF text_tokens = <<>> THEN Zero
             ELSE LET persona_score == _calculate_token_overlap(text_tokens, persona_tokens)
                      job_score == _calculate_token_overlap(text_tokens, job_tokens)
                      key_terms == persona_tokens \o job_tokens
                      tfidf_score == _calculate_tfidf_score(text_tokens, key_terms, order)
                      domain_score == _calculate_domain_relevance(txt, pers, jb)
                  IN  FMin(relevance_sum(persona_score, job_score,
                                         tfidf_score, domain_score), One)

\* key_terms of line 55 for a persona and a job
key_terms_of(pers, jb) ==
    _tokenize_and_clean(lower(pers)) \o _tokenize_and_clean(lower(jb))

\* The sum of line 118 depends on the order of the loop only when the loop
\* adds three or more products that are not all the same float: the sum of
\* two floats, and the sum of equal floats, is the same in every order.
\* The products of one text differ only by the counts of the terms.
order_decides(text_tokens, terms) ==
    \E counted \in {SelectSeq(terms, LAMBDA t : token_count(text_tokens, t) > 0)} :
        /\ Len(counted) >= 3
        /\ \E i \in 2..Len(counted) :
              token_count(text_tokens, counted[i])
              # token_count(text_tokens, counted[1])

\* the token lists of the texts for which the order of the loop decides the
\* sum
deciding_tokens(texts, terms) ==
    SelectSeq(AsList([i \in 1..Len(texts) |-> _tokenize_and_clean(lower(texts[i]))]),
              LAMBDA text_tokens : order_decides(text_tokens, terms))

\* the sums of line 118 for these token lists, the loop visiting the terms
\* in this order
sums_in(token_lists, order) ==
    [i \in 1..Len(token_lists) |-> tfidf_sum(token_lists[i], order, Len(order))]

\* The orders of the loop of line 113 in a process that scores these texts
\* with these key terms.  Every order of set_iterations(key_terms) is
\* taken; what it decides is the order among themselves of the terms that
\* occur in a text whose sum depends on the order, and two orders that give
\* every such text the same sum give the process the same scores.  One order
\* is kept for each list of sums: the terms that decide, in an order that
\* gives these sums, followed by the other terms.
iterations_for(texts, key_terms) ==
    CHOOSE r \in
      {CHOOSE s \in
        {CHOOSE u \in
          {CHOOSE v \in
            {{(CHOOSE o \in among : sums_in(token_lists, o) = sums)
              \o SelectSeq(terms, LAMBDA t : t \notin Range(deciding))
                : sums \in {sums_in(token_lists, o) : o \in among}}
              : among \in {{SelectSeq(order, LAMBDA t : t \in Range(deciding))
                               : order \in set_iterations(key_terms)}}} : TRUE
            : deciding \in
                {SelectSeq(terms, LAMBDA t : \E i \in 1..Len(token_lists) :
                                      token_count(token_lists[i], t) > 0)}} : TRUE
          : token_lists \in {deciding_tokens(AsList(distinct(texts)), terms)}} : TRUE
        : terms \in {AsList(distinct(key_terms))}} : TRUE

-----------------------------------------------------------------------------
(* Regular expressions of round1b.py and round1a.py.  Every pattern below  *)
(* is built of character classes that exclude what may follow them, so the *)
(* greedy match is the only one and no backtracking is lost.               *)

\* $ at index i: the end of s, or just before a final newline
AtDollar(s, i) == i = Len(s) + 1 \/ (i = Len(s) /\ CharAt(s, i) = "\n")

\* the index after the match of  C+  at i, 0 if there is none
Plus(s, i, C) == IF i >= 1 /\ RunEnd(s, i, C) > i THEN RunEnd(s, i, C) ELSE 0

\* the index after the greedy match of  F R+ (\s+ F R+)*  at i, 0 if none
RECURSIVE WordsEnd(_, _, _, _)
WordsEnd(s, i, F, R) ==
    IF ~In(s, i, F) \/ Plus(s, i + 1, R) = 0 THEN 0
    ELSE LET e == Plus(s, i + 1, R)
             w == RunEnd(s, e, SPACE)
             more == IF w > e THEN WordsEnd(s, w, F, R) ELSE 0
         IN  IF more > 0 THEN more ELSE e

\* re.match(r'^[A-Z][A-Z\s]+$', s)
match_all_caps(s) ==
    /\ Len(s) >= 2
    /\ In(s, 1, UPPER)
    /\ AtDollar(s, RunEnd(s, 2, UPPER \cup SPACE))

\* the index after the match of  ^\d+\.?\s+  , 0 if none
numbered_prefix(s) ==
    LET d == Plus(s, 1, DIGIT)
        k == IF d > 0 /\ At(s, d, ".") THEN d + 1 ELSE d
    IN  IF d = 0 THEN 0 ELSE Plus(s, k, SPACE)

\* re.match(r'^\d+\.?\s+[A-Z].*', s)
match_numbered_section(s) ==
    numbered_prefix(s) > 0 /\ In(s, numbered_prefix(s), UPPER)

\* re.match(r'^[A-Z][a-z]+(\s+[A-Z][a-z]+)*\s*$', s)
match_title_case(s) ==
    LET e == WordsEnd(s, 1, UPPER, LOWER)
    IN  e > 0 /\ RunEnd(s, e, SPACE) > Len(s)

\* re.match(r'^(W1|W2|...)\s+\d+', s) for the words of the set W
match_word_number(s, W) ==
    \E w \in W :
        /\ startswith(s, w)
        /\ Plus(s, Len(w) + 1, SPACE) > 0
        /\ In(s, Plus(s, Len(w) + 1, SPACE), DIGIT)

-----------------------------------------------------------------------------
(* round1b.py: Round1BProcessor._identify_sections                         *)

\* some pattern of section_patterns matches the line, and len(line) < 100
\* (lines 153-157)
is_header(line) ==
    /\ \/ match_all_caps(line)
       \/ match_numbered_section(line)
       \/ match_title_case(line)
       \/ match_word_number(line, {"Chapter", "Section", "Part"})
    /\ Len(line) < 100

\* the length test written with >=
long_enough_from_100(body) == Len(body) >= 100

\* len(current_section["text"]) > 100, the test of lines 161 and 179
long_enough(body) == Len(body) > 100

Section(document_name, page_num, title, body) ==
    [document |-> document_name, page |-> page_num,
     title |-> title, text |-> strip(body)]

\* The loop of lines 147-176 from line i on.  cur is current_section (title
\* and text) and out the sections appended so far; the result is the pair.
RECURSIVE scan_lines(_, _, _, _, _, _)
scan_lines(lines, i, cur, out, document_name, page_num) ==
    IF i > Len(lines) THEN <<cur, out>>
    ELSE LET line == strip(lines[i])
         IN  IF line = "" THEN scan_lines(lines, i + 1, cur, out, document_name, page_num)
             ELSE IF is_header(line) /\ cur.text # ""
             THEN scan_lines(lines, i + 1, [title |-> line, text |-> ""],
                             IF long_enough(cur.text)
                             THEN Append(out, Section(document_name, page_num,
                                                      cur.title, cur.text))
                             ELSE out,
                             document_name, page_num)
             ELSE scan_lines(lines, i + 1,
                             [title |-> cur.title, text |-> cur.text \o line \o " "],
                             out, document_name, page_num)

\* one turn of the loop over content.items(): the sections of one page
page_sections(page_text, document_name, page_num) ==
    LET r == scan_lines(split(page_text, "\n"), 1,
                        [title |-> "Introduction", text |-> ""], <<>>,
                        document_name, page_num)
        cur == r[1]
    IN  IF cur.text # "" /\ long_enough(cur.text)
        THEN Append(r[2], Section(document_name, page_num, cur.title, cur.text))
        ELSE r[2]

\* content is the sequence of the page texts: page_num is the index, as
\* extract_full_content numbers the pages from 1
RECURSIVE _identify_sections_from(_, _, _)
_identify_sections_from(cont, document_name, page_num) ==
    IF page_num > Len(cont) THEN <<>>
    ELSE page_sections(cont[page_num], document_name, page_num)
         \o _identify_sections_from(cont, document_name, page_num + 1)

\* the loop over the pages with current_section set once, before the first
\* page, and the final section added once, after the last page
RECURSIVE identify_sections_carrying_from(_, _, _, _, _)
identify_sections_carrying_from(cont, document_name, page_num, cur, out) ==
    IF page_num > Len(cont)
    THEN IF cur.text # "" /\ long_enough(cur.text)
         THEN Append(out, Section(document_name, Len(cont), cur.title, cur.text))
         ELSE out
    ELSE LET r == scan_lines(split(cont[page_num], "\n"), 1, cur, out,
                             document_name, page_num)
         IN  identify_sections_carrying_from(cont, document_name, page_num + 1,
                                             r[1], r[2])

identify_sections_carrying_accumulator(cont, document_name) ==
    identify_sections_carrying_from(cont, document_name, 1,
                                    [title |-> "Introduction", text |-> ""], <<>>)

_identify_sections(cont, document_name) ==
    _identify_sections_from(cont, document_name, 1)

-----------------------------------------------------------------------------
(* Inputs and specification of the NLPAnalyzer operations                  *)

MaxWords == 2

\* the pieces a text is made of: a persona word, job words (one capitalised
\* and followed by punctuation), a stop word, a two-letter word, a keyword
\* glued to a digit, white space
Pieces == {"Researcher", "machine", "Learning.", "the", "ML", "data1", "\t"}

RECURSIVE TextsOfLen(_)
TextsOfLen(n) ==
    IF n = 0 THEN {""}
    ELSE IF n = 1 THEN Pieces
    ELSE {t \o " " \o w : t \in TextsOfLen(n - 1), w \in Pieces}

\* a text of 17 tokens with the job words "understand", "machine" and
\* "learning" 1, 1 and 4 times: the sum of their three term frequencies
\* times math.log(10) depends on the order in which they are added
OrderBody ==
    "understand machine learning learning learning learning network network "
    \o "network network network network network network network network network"

\* a stop word, a two-letter word and a capitalised word with a period
MixedText == "the ML Learning."

Texts == UNION {TextsOfLen(n) : n \in 0..MaxWords} \cup {OrderBody, MixedText}
Personas == {"Researcher", "machine learning", "machine analyst",
             "Researcher analyst", ""}
Jobs == {"understand machine learning trends", "machine learning", "machine",
         "the data", ""}

Idle ==
    /\ op = "init"
    /\ text = "" /\ persona = "" /\ job = ""
    /\ tokens = <<>> /\ score = Zero
    /\ content = <<>> /\ sections = <<>>
    /\ documents_content = <<>> /\ all_sections = <<>>
    /\ scored_sections = <<>> /\ relevant_sections = <<>>
    /\ doc = [toc |-> <<>>, pages |-> <<>>] /\ headings = <<>>
    /\ NoTitle /\ NoSubsections /\ NoRun

InitNLP ==
    /\ op = "init"
    /\ text \in Texts /\ persona \in Personas /\ job \in Jobs
    /\ tokens = <<>> /\ score = Zero
    /\ content = <<>> /\ sections = <<>>
    /\ documents_content = <<>> /\ all_sections = <<>>
    /\ scored_sections = <<>> /\ relevant_sections = <<>>
    /\ doc = [toc |-> <<>>, pages |-> <<>>] /\ headings = <<>>
    /\ NoTitle /\ NoSubsections /\ NoRun

TokenizeAndClean ==
    /\ op = "init"
    /\ op' = "_tokenize_and_clean"
    /\ tokens' = _tokenize_and_clean(text)
    /\ UNCHANGED <<text, persona, job, score, content, sections,
                   documents_content, all_sections, scored_sections,
                   relevant_sections, doc, headings, title_vars, refiner_vars, run_vars>>

CalculateRelevance ==
    /\ op = "init"
    /\ op' = "calculate_relevance"
    /\ \E order \in iterations_for(<<text>>, key_terms_of(persona, job)) :
           score' = calculate_relevance(text, persona, job, order)
    /\ UNCHANGED <<text, persona, job, tokens, content, sections,
                   documents_content, all_sections, scored_sections,
                   relevant_sections, doc, headings, title_vars, refiner_vars, run_vars>>

NextNLP == TokenizeAndClean \/ CalculateRelevance

SpecNLP == InitNLP /\ [][NextNLP]_vars

-----------------------------------------------------------------------------
(* Claims about NLPAnalyzer, checked under SpecNLP                         *)

\* C1: for every text, persona and job (the empty string included),
\* calculate_relevance returns a value r with 0 <= r <= 1.
C1_RelevanceInUnitInterval ==
    op = "calculate_relevance" => FLeq(Zero, score) /\ FLeq(score, One)

\* the upper end: every component is 1, and the four weights added one
\* after the other give the largest double below 1
C1_Witness ==
    /\ op = "calculate_relevance" /\ text # ""
    /\ score = relevance_sum(One, One, One, One)
    /\ FLess(truediv(99, 100), score) /\ FLeq(score, One)

\* C2: calculate_relevance returns exactly 0.0 whenever the text is empty,
\* is white space only, or gives no token after tokenization and stop-word
\* removal, whatever the persona and the job are.
C2_ZeroWithoutTokens ==
    (/\ op = "calculate_relevance"
     /\ (text = "" \/ strip(text) = "" \/ _tokenize_and_clean(text) = <<>>))
    => score = Zero

\* a text that is not blank and has no token, although a domain keyword
\* occurs in it: only the test of the token list makes the score 0
C2_Witness ==
    /\ op = "calculate_relevance"
    /\ strip(text) # ""
    /\ _tokenize_and_clean(text) = <<>>
    /\ _calculate_domain_relevance(text, persona, job) # Zero
    /\ score = Zero

\* toks occur in s one after the other, from index i on
RECURSIVE OccurInOrder(_, _, _)
OccurInOrder(toks, s, i) ==
    \/ toks = <<>>
    \/ \E j \in i..Len(s) :
          /\ At(s, j, Head(toks))
          /\ OccurInOrder(Tail(toks), s, j + Len(Head(toks)))

\* C9: every token returned by _tokenize_and_clean is longer than 2, is made
\* of the lower-case letters a-z only and is no stop word; the tokens come in
\* their order of occurrence in the text.
C9_TokensClean ==
    op = "_tokenize_and_clean" =>
        /\ \A i \in 1..Len(tokens) :
              /\ Len(tokens[i]) > 2
              /\ CharsOf(tokens[i]) \subseteq LOWER
              /\ tokens[i] \notin stop_words
        /\ OccurInOrder(tokens, lower(text), 1)

\* a text with a stop word, a two-letter word and a capitalised word
\* followed by a period, of which only the last gives a token
C9_Witness ==
    /\ op = "_tokenize_and_clean"
    /\ contains(text, "the") /\ contains(text, "ML")
    /\ tokens = <<"learning">>

-----------------------------------------------------------------------------
(* Inputs and specification of the Section Segmenter                       *)

MaxItems == 3

\* a body line of n characters that matches no section pattern
Filler == "network network network network network network network network "
Body(n) == SubSeq(Filler \o Filler \o Filler, 1, n)

\* what a document is made of: heading lines (all caps, numbered, title
\* case), body lines around the minimum section length, a short line, and
\* the page break
PageBreak == "\f"
SegItems == {"HEADER ONE", "1. Intro", "Results",
             Body(99), Body(100), Body(150), "short", PageBreak}

\* the page texts of a document after one more item
AddItem(cont, x) ==
    LET n == Len(cont)
    IN  IF x = PageBreak THEN Append(cont, "")
        ELSE [cont EXCEPT ![n] = IF cont[n] = "" THEN x ELSE cont[n] \o "\n" \o x]

RECURSIVE ContentsOfLen(_)
ContentsOfLen(n) ==
    IF n = 0 THEN {<<"">>}
    ELSE {AddItem(c, x) : c \in ContentsOfLen(n - 1), x \in SegItems}

\* documents of two pages, the first of which ends in a section that a
\* heading has opened
TwoPageContents ==
    {<<first, second>> :
        first \in {"short\nHEADER ONE", "short\nHEADER ONE\n" \o Body(99),
                   "short\nHEADER ONE\n" \o Body(150)},
        second \in {Body(150), Body(99), "Results\n" \o Body(150),
                    "short\nResults\n" \o Body(150)}}

Contents == UNION {ContentsOfLen(n) : n \in 0..MaxItems} \cup TwoPageContents

InitSegmenter ==
    /\ op = "init"
    /\ content \in Contents
    /\ text = "" /\ persona = "" /\ job = ""
    /\ tokens = <<>> /\ score = Zero
    /\ sections = <<>>
    /\ documents_content = <<>> /\ all_sections = <<>>
    /\ scored_sections = <<>> /\ relevant_sections = <<>>
    /\ doc = [toc |-> <<>>, pages |-> <<>>] /\ headings = <<>>
    /\ NoTitle /\ NoSubsections /\ NoRun

IdentifySections ==
    /\ op = "init"
    /\ op' = "_identify_sections"
    /\ sections' = _identify_sections(content, "doc.pdf")
    /\ UNCHANGED <<text, persona, job, tokens, score, content,
                   documents_content, all_sections, scored_sections,
                   relevant_sections, doc, headings, title_vars, refiner_vars, run_vars>>

NextSegmenter == IdentifySections

SpecSegmenter == InitSegmenter /\ [][NextSegmenter]_vars

-----------------------------------------------------------------------------
(* Claims about the Section Segmenter, checked under SpecSegmenter         *)

\* the page text is a heading line followed by a body line of 150
\* characters that is no heading
HeadingThenBody(page_text) ==
    LET lines == split(page_text, "\n")
    IN  /\ Len(lines) = 2
        /\ is_header(lines[1])
        /\ Len(lines[2]) = 150 /\ ~is_header(lines[2])

\* C5: a page whose text is a heading line followed by 150 characters of
\* body that is no heading gives exactly one Section; its title is the text
\* of the heading line, not "Introduction", and its body does not contain
\* the heading line.
C5_HeadingTitlesItsSection ==
    (/\ op = "_identify_sections"
     /\ Len(content) = 1
     /\ HeadingThenBody(content[1]))
    => /\ Len(sections) = 1
       /\ sections[1].title = split(content[1], "\n")[1]
       /\ ~contains(sections[1].text, split(content[1], "\n")[1])

\* what the code does with such a page: the heading line finds the
\* accumulator empty, is added to the body, and the title stays "Introduction"
C5_HeadingAbsorbed ==
    /\ op = "_identify_sections"
    /\ Len(content) = 1
    /\ HeadingThenBody(content[1])
    /\ Len(sections) = 1
    /\ sections[1].title = "Introduction"
    /\ startswith(sections[1].text, split(content[1], "\n")[1])

\* len(line) + 1 summed over the lines of the page that are not blank: the
\* length of the text one accumulator would have with all of them
RECURSIVE accumulated_len(_, _)
accumulated_len(lines, i) ==
    IF i > Len(lines) THEN 0
    ELSE (IF strip(lines[i]) = "" THEN 0 ELSE Len(strip(lines[i])) + 1)
         + accumulated_len(lines, i + 1)

\* C6: every Section emitted by _identify_sections, at a new heading or at
\* the end of the page, has a stored body of at least 100 characters; a page
\* whose accumulated text is shorter produces no Section.
C6_SectionBodyAtLeast100 ==
    op = "_identify_sections" =>
        /\ \A i \in 1..Len(sections) : Len(sections[i].text) >= 100
        /\ \A p \in 1..Len(content) :
              accumulated_len(split(content[p], "\n"), 1) <= 100
              => \A i \in 1..Len(sections) : sections[i].page # p

\* a page with two Sections: the first, emitted at the heading, has a body
\* of exactly 100 characters; the second is emitted at the end of the page
C6_Witness ==
    /\ op = "_identify_sections"
    /\ Len(sections) = 2
    /\ sections[1].page = sections[2].page
    /\ Len(sections[1].text) = 100
    /\ sections[2].title # "Introduction"

-----------------------------------------------------------------------------
(* round1b.py: Round1BProcessor._extract_relevant_sections                 *)

\* the 20 of scored_sections[:20] (lines 123 and 126)
TopK == 20

\* the loop of lines 100-102 from document d on: the sections of the
\* documents, in the order of documents_content
RECURSIVE extract_sections_from(_, _)
extract_sections_from(dc, d) ==
    IF d > Len(dc) THEN <<>>
    ELSE _identify_sections(dc[d].content, dc[d].file)
         \o extract_sections_from(dc, d + 1)

\* the dict with the score of the text as it is cut for the output
scored_section_of_cut_text(section, pers, jb, order) ==
    [document |-> section.document,
     page_number |-> section.page,
     section_title |-> section.title,
     importance_rank |-> [float |-> calculate_relevance(prefix(section.text, 500),
                                                         pers, jb, order)],
     text |-> prefix(section.text, 500)]

\* the dict appended at lines 111-117: importance_rank holds the float
\* relevance score of the full section text, text is cut to 500 characters
scored_section(section, pers, jb, order) ==
    [document |-> section.document,
     page_number |-> section.page,
     section_title |-> section.title,
     importance_rank |-> [float |-> calculate_relevance(section.text, pers, jb, order)],
     text |-> prefix(section.text, 500)]

\* a sort that is descending but reverses the order of equal keys
sort_by_importance_unstable(scored0) ==
    CHOOSE r \in
        {CHOOSE sorted \in
            {AsList([k \in 1..Len(scored) |->
                        scored[CHOOSE i \in 1..Len(scored) : pos[i] = k]])
             : pos \in {AsList([i \in 1..Len(scored) |->
                    Cardinality({j \in 1..Len(scored) :
                        FLess(scored[i].importance_rank.float,
                              scored[j].importance_rank.float)})
                    + Cardinality({j \in (i + 1)..Len(scored) :
                          scored[j].importance_rank.float
                              = scored[i].importance_rank.float}) + 1])}} : TRUE
         : scored \in {AsList(scored0)}} : TRUE

\* scored_sections.sort(key=importance_rank, reverse=True), line 120: list.sort
\* is stable, and with reverse=True elements of equal key keep their order.
\* Element i goes behind the elements of greater key and the earlier elements
\* of equal key.
sort_by_importance(scored0) ==
    CHOOSE r \in
        {CHOOSE sorted \in
            {AsList([k \in 1..Len(scored) |->
                        scored[CHOOSE i \in 1..Len(scored) : pos[i] = k]])
             : pos \in {AsList([i \in 1..Len(scored) |->
                    Cardinality({j \in 1..Len(scored) :
                        FLess(scored[i].importance_rank.float,
                              scored[j].importance_rank.float)})
                    + Cardinality({j \in 1..(i - 1) :
                          scored[j].importance_rank.float
                              = scored[i].importance_rank.float}) + 1])}} : TRUE
         : scored \in {AsList(scored0)}} : TRUE

\* ranks counted from 0, as enumerate gives them
assign_ranks_from_zero(scored) ==
    [i \in 1..Len(scored) |->
        IF i <= TopK
        THEN [scored[i] EXCEPT !.importance_rank = [int |-> i - 1]]
        ELSE scored[i]]

\* lines 123-124: the first 20 elements get importance_rank i + 1 for the
\* 0-based i of enumerate, which is the 1-based index here
assign_ranks(scored) ==
    [i \in 1..Len(scored) |->
        IF i <= TopK
        THEN [scored[i] EXCEPT !.importance_rank = [int |-> i]]
        ELSE scored[i]]

\* the locals of _extract_relevant_sections: all_sections after line 102,
\* scored_sections after the sort of line 120, and the list returned
extract_relevant_sections_locals(dc, pers, jb, order) ==
    CHOOSE r \in
        {CHOOSE locals \in
            {[all_sections |-> all,
              scored_sections |-> sorted,
              result |-> SubSeq(assign_ranks(sorted), 1,
                                IF Len(sorted) < TopK THEN Len(sorted) ELSE TopK)]
             : sorted \in {sort_by_importance(
                              [k \in 1..Len(all) |->
                                  scored_section(all[k], pers, jb, order)])}} : TRUE
         : all \in {AsList(extract_sections_from(dc, 1))}} : TRUE

_extract_relevant_sections(dc, pers, jb, order) ==
    extract_relevant_sections_locals(dc, pers, jb, order).result

\* the texts _extract_relevant_sections scores at line 108
section_texts(dc) ==
    CHOOSE r \in
        {AsList([k \in 1..Len(all) |-> all[k].text])
            : all \in {AsList(extract_sections_from(dc, 1))}} : TRUE

\* the orders of the loop of nlp_analyzer.py line 113 in a process that
\* ranks the sections of these documents
ranking_iterations(dc, pers, jb) ==
    iterations_for(section_texts(dc), key_terms_of(pers, jb))

-----------------------------------------------------------------------------
(* Inputs and specification of the section ranking                         *)

MaxDocs == 3

\* section bodies, each longer than 100 characters: one with the job words
\* "machine learning", one with the persona word and the other job words, one
\* with no word of persona or job, one with the ten keywords of the
\* researcher domain
MLBody == "machine learning " \o Body(87)
RivalBody == "researcher understand trends researcher understand trends "
             \o "researcher understand trends researcher understand trends"
NeutralBody == Body(103)
DomainBody == "research study analysis methodology results findings "
              \o "experiment data hypothesis conclusion network network"

\* a page of seven sections, equal bodies among them
ManyPage ==
    NeutralBody \o "\nHEADER ONE\n" \o MLBody \o "\n1. Intro\n" \o RivalBody
    \o "\nResults\n" \o DomainBody \o "\nHEADER ONE\n" \o NeutralBody
    \o "\n1. Intro\n" \o MLBody \o "\nResults\n" \o RivalBody

\* two bodies whose scores for the persona "Researcher" and the job
\* "understand machine learning trends" differ in the last place only: 0.45
\* and 0.45000000000000007
CloseLow ==
    "understand machine learning understand machine learning "
    \o "understand machine learning network planet network planet"
CloseHigh ==
    "understand machine learning understand machine learning "
    \o "study analysis methodology results network planet"

\* a page of two sections: the two bodies of nearly equal score, the lower
\* first
ClosePage == CloseLow \o "\nHEADER ONE\n" \o CloseHigh

\* two bodies of 15 tokens with the job words "understand", "machine",
\* "learning" and "trends" 1, 1, 1 and 3 times, and 1, 1, 2 and 2 times: the
\* score of each for the persona "Researcher" and the job "understand
\* machine learning trends" is 0.5442068074395237 or 0.5442068074395238 with
\* the order in which the loop of nlp_analyzer.py line 113 adds the terms,
\* and in some orders the second body has the greater score
TrendsBody ==
    "understand machine learning trends trends trends network network network "
    \o "network network network network network network"
LearningBody ==
    "understand machine learning learning trends trends network network network "
    \o "network network network network network network"

\* a page of one section longer than 500 characters whose last words are
\* "machine learning"
LongPage == Body(191) \o "\n" \o Body(191) \o "\n" \o Body(191)
            \o "\nmachine learning"

\* the contents a document of a batch can have; the second has the words
\* "machine learning" on a page too short to give a section, the two bodies
\* whose order of scores depends on the order of the loop, and the section
\* longer than 500 characters
DocContents ==
    {<<RivalBody>>, <<"machine learning", TrendsBody, LearningBody, LongPage>>,
     <<NeutralBody, DomainBody>>, <<ManyPage, ClosePage>>}

DocName(d) == "doc" \o CharAt(DigitChars, d + 1) \o ".pdf"

RECURSIVE BatchesOfLen(_)
BatchesOfLen(n) ==
    IF n = 0 THEN {<<>>}
    ELSE {Append(b, [file |-> DocName(n), content |-> c]) :
            b \in BatchesOfLen(n - 1), c \in DocContents}

Batches == UNION {BatchesOfLen(n) : n \in 0..MaxDocs}

RankJobs == {"understand machine learning trends"}

InitRanking ==
    /\ op = "init"
    /\ documents_content \in Batches
    /\ persona = "Researcher" /\ job \in RankJobs
    /\ text = "" /\ tokens = <<>> /\ score = Zero
    /\ content = <<>> /\ sections = <<>>
    /\ all_sections = <<>>
    /\ scored_sections = <<>> /\ relevant_sections = <<>>
    /\ doc = [toc |-> <<>>, pages |-> <<>>] /\ headings = <<>>
    /\ NoTitle /\ NoSubsections /\ NoRun

ExtractRelevantSections ==
    /\ op = "init"
    /\ op' = "_extract_relevant_sections"
    /\ \E order \in ranking_iterations(documents_content, persona, job) :
       \E r \in {extract_relevant_sections_locals(documents_content, persona, job,
                                                  order)} :
           /\ all_sections' = r.all_sections
           /\ scored_sections' = r.scored_sections
           /\ relevant_sections' = r.result
    /\ UNCHANGED <<text, persona, job, tokens, score, content, sections,
                   documents_content, doc, headings, title_vars, refiner_vars, run_vars>>

NextRanking == ExtractRelevantSections

SpecRanking == InitRanking /\ [][NextRanking]_vars

-----------------------------------------------------------------------------
(* Claims about the section ranking, checked under SpecRanking             *)

\* C3: for a batch of n extracted sections _extract_relevant_sections
\* returns K = min(n, 20) sections, the i-th returned section has
\* importance_rank i (so the ranks are exactly 1..K, without duplicates or
\* gaps), and no returned section still carries a float in importance_rank.
C3_RanksAreOneToK ==
    op = "_extract_relevant_sections" =>
        LET n == Len(all_sections)
            K == IF n < 20 THEN n ELSE 20
        IN  /\ Len(relevant_sections) = K
            /\ \A i \in 1..Len(relevant_sections) :
                  /\ DOMAIN relevant_sections[i].importance_rank = {"int"}
                  /\ relevant_sections[i].importance_rank.int = i

\* more than 20 sections were extracted and 20 were returned
C3_Witness ==
    /\ op = "_extract_relevant_sections"
    /\ Len(all_sections) > 20
    /\ Len(relevant_sections) = 20
    /\ relevant_sections[20].importance_rank = [int |-> 20]

\* a scored section without its importance_rank
Unranked(e) ==
    [document |-> e.document, page_number |-> e.page_number,
     section_title |-> e.section_title, text |-> e.text]

\* an extracted section as it is reported
Reported(s) ==
    [document |-> s.document, page_number |-> s.page,
     section_title |-> s.title, text |-> prefix(s.text, 500)]

\* the place of the document of that name in the batch
DocIndex(name) ==
    CHOOSE d \in 1..Len(documents_content) : documents_content[d].file = name

\* all_sections is in document order, then page order
InExtractionOrder ==
    \A k, l \in 1..Len(all_sections) :
        k < l => \/ DocIndex(all_sections[k].document) < DocIndex(all_sections[l].document)
                 \/ /\ all_sections[k].document = all_sections[l].document
                    /\ all_sections[k].page <= all_sections[l].page

\* C4: the returned sections are the head of the list sorted by score; that
\* list holds the extracted sections, in non-increasing order of score (so
\* no dropped section has a higher score than a retained one), and sections
\* of equal score are in extraction order: document order, then page order,
\* then the order within the page.
C4_SortedAndStable ==
    op = "_extract_relevant_sections" =>
        LET n == Len(all_sections)
            U == [k \in 1..n |-> Reported(all_sections[k])]
            S == [i \in 1..Len(scored_sections) |-> Unranked(scored_sections[i])]
            key(i) == scored_sections[i].importance_rank.float
            first == [i \in 1..Len(scored_sections) |->
                        IF \E k \in 1..n : U[k] = S[i]
                        THEN CHOOSE k \in 1..n :
                                /\ U[k] = S[i]
                                /\ \A l \in 1..(k - 1) : U[l] # S[i]
                        ELSE 0]
        IN  /\ InExtractionOrder
            /\ Len(scored_sections) = n
            /\ \A k \in 1..n :
                  Cardinality({i \in 1..n : S[i] = U[k]})
                  = Cardinality({l \in 1..n : U[l] = U[k]})
            /\ Len(relevant_sections) <= n
            /\ \A i \in 1..Len(relevant_sections) :
                  Unranked(relevant_sections[i]) = S[i]
            /\ \A i, j \in 1..n :
                  i < j => /\ FLeq(key(j), key(i))
                           /\ key(i) = key(j) => first[i] <= first[j]

\* more than 20 sections; two sections of different documents with the same
\* score, one retained and one dropped; and a dropped section with a lower
\* score than the last retained one
C4_Witness ==
    /\ op = "_extract_relevant_sections"
    /\ Len(scored_sections) > 21
    /\ Len(relevant_sections) = 20
    /\ \E i \in 1..20 : \E j \in 21..Len(scored_sections) :
          /\ scored_sections[i].importance_rank = scored_sections[j].importance_rank
          /\ scored_sections[i].document # scored_sections[j].document
    /\ \E j \in 21..Len(scored_sections) :
          FLess(scored_sections[j].importance_rank.float,
                scored_sections[20].importance_rank.float)

\* some page of the document has the words "machine learning"
ContainsML(cont) ==
    \E p \in 1..Len(cont) : contains(lower(cont[p]), "machine learning")

MLDocs == {d \in 1..Len(documents_content) :
              ContainsML(documents_content[d].content)}

\* the scenario: three documents, exactly one with the words, and the
\* persona and job of the scenario
ThreeDocsOneML ==
    /\ Len(documents_content) = 3
    /\ Cardinality(MLDocs) = 1
    /\ persona = "Researcher"
    /\ job = "understand machine learning trends"

MLDocName == documents_content[CHOOSE d \in MLDocs : TRUE].file

\* C10 as stated: in the scenario the section of importance_rank 1 belongs
\* to the document with the words, whatever the other two contain.
C10_TopSectionFromMLDocument ==
    (op = "_extract_relevant_sections" /\ ThreeDocsOneML)
    => /\ Len(relevant_sections) >= 1
       /\ relevant_sections[1].document = MLDocName

\* the words are in the body of an extracted section of their document
MLInSomeSection ==
    \E k \in 1..Len(all_sections) :
        /\ all_sections[k].document = MLDocName
        /\ {"machine", "learning"}
              \subseteq Range(_tokenize_and_clean(all_sections[k].text))

\* no section of the other documents has a token of the persona or the job
OthersShareNoToken ==
    \A k \in 1..Len(all_sections) :
        all_sections[k].document # MLDocName =>
            Range(_tokenize_and_clean(all_sections[k].text))
            \cap Range(_tokenize_and_clean(persona) \o _tokenize_and_clean(job)) = {}

\* C10 amended: in the scenario, when the words are in the body of an
\* extracted section of their document and no section of the other two
\* documents has a token of the persona or the job, the section of
\* importance_rank 1 belongs to the document with the words.
C10_TopSectionFromMLDocumentWhenOthersUnrelated ==
    (/\ op = "_extract_relevant_sections"
     /\ ThreeDocsOneML
     /\ MLInSomeSection
     /\ OthersShareNoToken)
    => /\ Len(relevant_sections) >= 1
       /\ relevant_sections[1].document = MLDocName

\* the scenario with the document of the words last in the batch and
\* sections of the other documents that score above zero through the
\* domain keywords
C10_Witness ==
    /\ op = "_extract_relevant_sections"
    /\ ThreeDocsOneML
    /\ MLInSomeSection
    /\ OthersShareNoToken
    /\ MLDocs = {3}
    /\ \E i \in 1..Len(scored_sections) :
          /\ scored_sections[i].document # MLDocName
          /\ FLess(Zero, scored_sections[i].importance_rank.float)
    /\ relevant_sections[1].document = MLDocName

-----------------------------------------------------------------------------
(* round1a.py: the plausibility filter Round1AProcessor._is_likely_heading  *)
(* and Round1AProcessor._has_heading_patterns                              *)

Min(a, b) == IF a < b THEN a ELSE b

\* str(n) of an int, as the f-strings of lines 195 and 370 format it
RECURSIVE digits(_)
digits(n) ==
    IF n < 10 THEN CharAt(DigitChars, n + 1)
    ELSE digits(n \div 10) \o CharAt(DigitChars, (n % 10) + 1)
str(n) == IF n < 0 THEN "-" \o digits(-n) ELSE digits(n)

\* len(s.split())
word_count(s) ==
    Cardinality({i \in 1..Len(s) :
                    CharAt(s, i) \notin SPACE /\ (i = 1 \/ CharAt(s, i - 1) \in SPACE)})

\* re.search(r'https?://', s)
search_http(s) == contains(s, "http://") \/ contains(s, "https://")

\* the index after the match of  ^\d+\.\d+  , 0 if none
decimal_prefix(s) ==
    LET d == Plus(s, 1, DIGIT)
    IN  IF d = 0 \/ ~At(s, d, ".") THEN 0 ELSE Plus(s, d + 1, DIGIT)

\* re.search(r'^\w+@\w+\.\w+', s)
match_email(s) ==
    LET a == Plus(s, 1, WORD)
        b == IF a > 0 /\ At(s, a, "@") THEN Plus(s, a + 1, WORD) ELSE 0
    IN  b > 0 /\ At(s, b, ".") /\ In(s, b + 1, WORD)

\* re.search(r'://.*\.git', s): the dot matches no newline
search_git_url(s) ==
    \E i \in 1..Len(s) : \E j \in (i + 3)..Len(s) :
        /\ At(s, i, "://") /\ At(s, j, ".git")
        /\ \A k \in (i + 3)..(j - 1) : CharAt(s, k) # "\n"

\* some pattern of exclude_patterns is found in text_lower (lines 375-394)
excluded(text_lower) ==
    \/ (Plus(text_lower, 1, DIGIT) > 0 /\ AtDollar(text_lower, Plus(text_lower, 1, DIGIT)))
    \/ (startswith(text_lower, "page ") /\ In(text_lower, 6, DIGIT))
    \/ (decimal_prefix(text_lower) > 0 /\ AtDollar(text_lower, decimal_prefix(text_lower)))
    \/ (startswith(text_lower, "figure ") /\ In(text_lower, 8, DIGIT))
    \/ (startswith(text_lower, "table ") /\ In(text_lower, 7, DIGIT))
    \/ match_email(text_lower)
    \/ startswith(text_lower, "http://") \/ startswith(text_lower, "https://")
    \/ startswith(text_lower, "www.")
    \/ contains(text_lower, ".com")
    \/ \E i \in 1..Len(text_lower) : At(text_lower, i, ".git") /\ AtDollar(text_lower, i + 4)
    \/ contains(text_lower, "github.com")
    \/ search_git_url(text_lower)

\* re.search(r'[a-zA-Z0-9.-]+\.(com|org|net|edu|gov|mil|int)', s): a dot and
\* a top-level domain with a character of the class before the dot
search_domain(s) ==
    \E j \in 2..Len(s) : \E tld \in {"com", "org", "net", "edu", "gov", "mil", "int"} :
        /\ CharAt(s, j - 1) \in ALPHA \cup DIGIT \cup {".", "-"}
        /\ At(s, j, "." \o tld)

\* the additional URL filtering of lines 397-403
looks_like_url(text_lower) ==
    \/ search_http(text_lower)
    \/ contains(text_lower, "www.")
    \/ contains(text_lower, ".com")
    \/ contains(text_lower, ".git")
    \/ contains(text_lower, "github.com")
    \/ search_domain(text_lower)

\* some pattern of heading_patterns is found in txt with re.IGNORECASE
\* (lines 414-426): under the flag [A-Z] and [a-z] are any letter and the
\* literal words match in any case
matches_heading_pattern(txt) ==
    \/ (numbered_prefix(txt) > 0 /\ In(txt, numbered_prefix(txt), WORD))
    \/ (startswith(lower(txt), "chapter ") /\ In(txt, 9, DIGIT))
    \/ (startswith(lower(txt), "section ") /\ In(txt, 9, DIGIT))
    \/ (startswith(lower(txt), "round ") /\ In(txt, 7, DIGIT))
    \/ LET e == WordsEnd(txt, 1, ALPHA, ALPHA)
       IN  e > 0 /\ (AtDollar(txt, e) \/ (At(txt, e, ":") /\ AtDollar(txt, e + 1)))
    \/ (In(txt, 1, ALPHA) /\ In(txt, 2, ALPHA))
    \/ \E w \in {"challenge", "hackathon", "appendix"} : contains(lower(txt), w)

_is_likely_heading(txt) ==
    LET text_lower == strip(lower(txt))
    IN  IF excluded(text_lower) THEN FALSE
        ELSE IF looks_like_url(text_lower) THEN FALSE
        ELSE IF Len(txt) > 150 THEN FALSE
        ELSE IF endswith(txt, ".") /\ count(txt, ".") > 1 THEN FALSE
        ELSE IF matches_heading_pattern(txt) THEN TRUE
        ELSE IF endswith(txt, ":") /\ word_count(txt) <= 8 THEN TRUE
        ELSE word_count(txt) <= 12 /\ ~endswith(txt, ",") /\ ~endswith(txt, ".")

_has_heading_patterns(txt) ==
    LET text_lower == strip(lower(txt))
    IN  \/ numbered_prefix(text_lower) > 0
        \/ match_word_number(text_lower, {"chapter", "section", "part", "appendix"})
        \/ \E w \in {"introduction", "overview", "conclusion", "summary",
                     "references", "acknowledgements"} : startswith(text_lower, w)
        \/ \E w \in {"table of contents", "revision history"} : startswith(text_lower, w)
        \/ \E i \in 1..Len(text_lower) :
              At(text_lower, i, ":") /\ AtDollar(text_lower, RunEnd(text_lower, i + 1, SPACE))

-----------------------------------------------------------------------------
(* round1a.py: the Heading Classifier, Round1AProcessor._extract_headings   *)
(* and the operations it calls.  A document is [toc, pages]: toc is the    *)
(* list doc.get_toc() returns, and pages the lines of the text blocks of   *)
(* each page in order, a line being the sequence of its spans [text, size, *)
(* flags], the size a float that is not negative.                          *)

h1_keywords ==
    {"introduction", "overview", "conclusion", "summary", "references",
     "acknowledgements", "table of contents", "revision history"}

\* re.match(r'^\d+\.\s+[A-Z]', txt)
match_numbered_h1(txt) ==
    LET d == Plus(txt, 1, DIGIT)
        w == IF d > 0 /\ At(txt, d, ".") THEN Plus(txt, d + 1, SPACE) ELSE 0
    IN  w > 0 /\ In(txt, w, UPPER)

\* re.match(r'^\d+\.\d+\s+', txt)
match_numbered_h2(txt) ==
    decimal_prefix(txt) > 0 /\ Plus(txt, decimal_prefix(txt), SPACE) > 0

\* re.match(r'^\d+\.\d+\.\d+\s+', txt)
match_numbered_h3(txt) ==
    LET p == decimal_prefix(txt)
        q == IF p > 0 /\ At(txt, p, ".") THEN Plus(txt, p + 1, DIGIT) ELSE 0
    IN  q > 0 /\ Plus(txt, q, SPACE) > 0

\* lines 342-347
base_level_by_font(font_size, h1_thresh, h2_thresh) ==
    IF FGeq(font_size, h1_thresh) THEN 1
    ELSE IF FGeq(font_size, h2_thresh) THEN 2
    ELSE 3

\* the level by the font size alone, without the adjustments of lines 350-365
determine_heading_level_by_font(txt, font_size, is_bold, h1_thresh, h2_thresh, h3_thresh) ==
    "H" \o str(Min(base_level_by_font(font_size, h1_thresh, h2_thresh), 3))

\* the level with the third pattern capping the level at 3 as the second
\* caps it at 2, instead of setting it
determine_heading_level_capping_depth_three(txt, font_size, is_bold, h1_thresh, h2_thresh, h3_thresh) ==
    LET base_level == base_level_by_font(font_size, h1_thresh, h2_thresh)
        text_lower == strip(lower(txt))
        adjusted ==
            IF (\E w \in h1_keywords : contains(text_lower, w)) \/ match_numbered_h1(txt)
            THEN Min(base_level, 1)
            ELSE IF match_numbered_h2(txt) THEN Min(base_level, 2)
            ELSE IF match_numbered_h3(txt) THEN Min(base_level, 3)
            ELSE base_level
    IN  "H" \o str(Min(adjusted, 3))

_determine_heading_level(txt, font_size, is_bold, h1_thresh, h2_thresh, h3_thresh) ==
    LET base_level == base_level_by_font(font_size, h1_thresh, h2_thresh)
        text_lower == strip(lower(txt))
        adjusted ==
            IF (\E w \in h1_keywords : contains(text_lower, w)) \/ match_numbered_h1(txt)
            THEN Min(base_level, 1)
            ELSE IF match_numbered_h2(txt) THEN Min(base_level, 2)
            ELSE IF match_numbered_h3(txt) THEN 3
            ELSE base_level
    IN  "H" \o str(Min(adjusted, 3))

\* the lines of the pages from page p on, each with its 1-based page number
RECURSIVE lines_from(_, _)
lines_from(pages, p) ==
    IF p > Len(pages) THEN <<>>
    ELSE [i \in 1..Len(pages[p]) |-> [page |-> p, spans |-> pages[p][i]]]
         \o lines_from(pages, p + 1)

\* the spans of the lines from line i on
RECURSIVE spans_from(_, _)
spans_from(lines, i) ==
    IF i > Len(lines) THEN <<>>
    ELSE lines[i].spans \o spans_from(lines, i + 1)

\* first pass, lines 213-223: the positive font sizes of all spans
collect_font_sizes(pages) ==
    LET spans == spans_from(lines_from(pages, 1), 1)
        positive == SelectSeq(spans, LAMBDA sp : FLess(Zero, sp.size))
    IN  [i \in 1..Len(positive) |-> positive[i].size]

\* sum(sizes[:i]): the floats are added from the left
RECURSIVE sum(_, _)
sum(sizes, i) == IF i = 0 THEN Zero ELSE FAdd(sum(sizes, i - 1), sizes[i])

\* sorted(set(font_sizes), reverse=True)[k - 1]
kth_largest(sizes, k) ==
    CHOOSE x \in Range(sizes) : Cardinality({y \in Range(sizes) : FLess(x, y)}) = k - 1

\* the thresholds with one more point asked of a document of one font size
heading_thresholds_above_average(font_sizes0) ==
    CHOOSE r \in
        {IF Cardinality(Range(font_sizes)) >= 3
         THEN <<kth_largest(font_sizes, 1), kth_largest(font_sizes, 2),
                kth_largest(font_sizes, 3)>>
         ELSE IF Cardinality(Range(font_sizes)) = 2
         THEN <<kth_largest(font_sizes, 1), kth_largest(font_sizes, 2),
                minus_one(kth_largest(font_sizes, 2))>>
         ELSE CHOOSE t \in
                {<<FAdd(avg_size, Float(5)), FAdd(avg_size, Float(3)),
                   FAdd(avg_size, Float(1))>>
                 : avg_size \in {FDivInt(sum(font_sizes, Len(font_sizes)),
                                         Len(font_sizes))}} : TRUE
         : font_sizes \in {font_sizes0}} : TRUE

\* lines 229-246: <<h1_threshold, h2_threshold, h3_threshold>> of a list of
\* font sizes that is not empty; the list is sorted in line 229, and the
\* sum is only taken of a list whose elements are all equal
heading_thresholds(font_sizes0) ==
    CHOOSE r \in
        {IF Cardinality(Range(font_sizes)) >= 3
         THEN <<kth_largest(font_sizes, 1), kth_largest(font_sizes, 2),
                kth_largest(font_sizes, 3)>>
         ELSE IF Cardinality(Range(font_sizes)) = 2
         THEN <<kth_largest(font_sizes, 1), kth_largest(font_sizes, 2),
                minus_one(kth_largest(font_sizes, 2))>>
         ELSE CHOOSE t \in
                {<<FAdd(avg_size, Float(4)), FAdd(avg_size, Float(2)), avg_size>>
                 : avg_size \in {FDivInt(sum(font_sizes, Len(font_sizes)),
                                         Len(font_sizes))}} : TRUE
         : font_sizes \in {font_sizes0}} : TRUE

\* lines 256-272 on the spans from span i on: the texts of the spans,
\* stripped, each followed by a blank
RECURSIVE joined_text(_, _)
joined_text(spans, i) ==
    IF i > Len(spans) THEN ""
    ELSE strip(spans[i].text) \o " " \o joined_text(spans, i + 1)

line_text_of(spans) == strip(joined_text(spans, 1))

RECURSIVE max_font_size_of(_, _)
max_font_size_of(spans, i) ==
    IF i > Len(spans) THEN Zero
    ELSE LET rest == max_font_size_of(spans, i + 1)
         IN  IF FLess(rest, spans[i].size) THEN spans[i].size ELSE rest

\* flags & 2**4 for some span of the line
is_bold_line(spans) ==
    \E i \in 1..Len(spans) : (spans[i].flags \div 16) % 2 = 1

\* the tests of lines 275-290: the line becomes a heading
is_heading_line(spans, th) ==
    LET line_text == line_text_of(spans)
    IN  /\ ~(\/ search_http(line_text)
             \/ contains(lower(line_text), "github.com")
             \/ endswith(line_text, ".git"))
        /\ line_text # "" /\ Len(line_text) > 3 /\ Len(line_text) < 200
        /\ _is_likely_heading(line_text)
        /\ \/ FGeq(max_font_size_of(spans, 1), th[3])
           \/ is_bold_line(spans)
           \/ _has_heading_patterns(line_text)

_extract_headings_from_text(d) ==
    CHOOSE r \in
        {IF font_sizes = <<>> THEN <<>>
         ELSE CHOOSE h \in
            {LET found == SelectSeq(lines_from(d.pages, 1),
                                    LAMBDA l : is_heading_line(l.spans, th))
             IN  [i \in 1..Len(found) |->
                    [level |-> _determine_heading_level(
                                   line_text_of(found[i].spans),
                                   max_font_size_of(found[i].spans, 1),
                                   is_bold_line(found[i].spans), th[1], th[2], th[3]),
                     text |-> strip(line_text_of(found[i].spans)),
                     page |-> found[i].page]]
             : th \in {heading_thresholds(font_sizes)}} : TRUE
         : font_sizes \in {AsList(collect_font_sizes(d.pages))}} : TRUE

\* the test of lines 189-193 on the stripped title: the entry is kept
toc_entry_kept(title) ==
    ~(\/ search_http(title)
      \/ contains(lower(title), "github.com")
      \/ endswith(title, ".git")
      \/ ~_is_likely_heading(title))

\* the outline taken from the layout when no entry of the table of contents
\* is kept
extract_headings_layout_when_none_kept(d) ==
    LET kept == SelectSeq(d.toc, LAMBDA item : toc_entry_kept(strip(item.title)))
    IN  IF kept # <<>>
        THEN [i \in 1..Len(kept) |->
                [level |-> "H" \o str(Min(kept[i].level, 3)),
                 text |-> strip(kept[i].title),
                 page |-> kept[i].page]]
        ELSE _extract_headings_from_text(d)

_extract_headings(d) ==
    IF d.toc # <<>>
    THEN LET kept == SelectSeq(d.toc, LAMBDA item : toc_entry_kept(strip(item.title)))
         IN  [i \in 1..Len(kept) |->
                [level |-> "H" \o str(Min(kept[i].level, 3)),
                 text |-> strip(kept[i].title),
                 page |-> kept[i].page]]
    ELSE _extract_headings_from_text(d)

-----------------------------------------------------------------------------
(* Inputs and specification of the Heading Classifier                      *)

MaxLines == 3

\* a span whose size is a whole number
Span(txt, size, flags) == [text |-> txt, size |-> Float(size), flags |-> flags]

LongLowerCase == "the text of this line is long and plain and it has no capital at all"

\* the lines a page is made of: numbered headings of depth one to three in
\* one font size, two of them with a top-level keyword; a large bold
\* heading; a numbered heading of two spans; body text in a small font; a
\* line with a URL and no font size; a numbered line in the small font.
\* The sizes 1, 2 and 6.01 and the numbered line "1. intro" are in
\* SmallLineItems.
LineItems ==
    {<<Span("1. Intro", 12, 0)>>,
     <<Span("1.1 Background", 12, 0)>>,
     <<Span("1.1.1 Detail", 12, 0)>>,
     <<Span("1.1 Overview", 12, 0)>>,
     <<Span("Conclusion", 16, 16)>>,
     <<Span("2.", 14, 0), Span(" Methods ", 14, 20)>>,
     <<Span("a plain sentence, with commas, and a period.", 10, 0)>>,
     <<Span("see https://a.b/c.git", 0, 0)>>,
     <<Span("1.2 results", 10, 0)>>}

\* the lines of the pages of plain text: a long line in lower case in the
\* small font, a title without a font size, and headings in three more sizes
PlainLineItems ==
    {<<Span(LongLowerCase, 10, 0)>>,
     <<Span("Plain Words", 0, 0)>>,
     <<Span("1. Intro", 12, 0)>>,
     <<Span("Conclusion", 16, 16)>>,
     <<Span("2.", 14, 0), Span(" Methods ", 14, 20)>>}

\* the size 6.01 = 601 / 100, which is no whole number
FineSize == truediv(601, 100)
FineSpan(txt) == [text |-> txt, size |-> FineSize, flags |-> 0]

\* the lines of the pages in small sizes: titles in the sizes 2 and 1 (the
\* second with chr(31) before it and chr(11) between its two words), the
\* title without a font size, a line of three spans in the size 6.01, and
\* a numbered heading whose text begins with a lower-case letter
SmallLineItems ==
    {<<Span("Large Heading Text", 2, 0)>>,
     <<Span(CharAt(ControlSpaces, 5) \o "Tiny" \o CharAt(ControlSpaces, 1) \o "subtitle", 1, 0)>>,
     <<Span("Plain Words", 0, 0)>>,
     <<FineSpan("Fine"), FineSpan("Print"), FineSpan("Text")>>,
     <<Span("1. intro", 12, 0)>>}

NewPage == <<>>

\* the pages of a document after one more line or a page break
AddLine(pages, x) ==
    IF x = NewPage THEN Append(pages, <<>>)
    ELSE [pages EXCEPT ![Len(pages)] = Append(pages[Len(pages)], x)]

RECURSIVE PagesOfLen(_)
PagesOfLen(n) ==
    IF n = 0 THEN {<< <<>> >>}
    ELSE {AddLine(pg, x) : pg \in PagesOfLen(n - 1), x \in LineItems \cup {NewPage}}

RECURSIVE PlainPagesOfLen(_)
PlainPagesOfLen(n) ==
    IF n = 0 THEN {<< <<>> >>}
    ELSE {AddLine(pg, x) : pg \in PlainPagesOfLen(n - 1), x \in PlainLineItems \cup {NewPage}}

\* one page of lines in small sizes
RECURSIVE SmallPagesOfLen(_)
SmallPagesOfLen(n) ==
    IF n = 0 THEN {<< <<>> >>}
    ELSE {AddLine(pg, x) : pg \in SmallPagesOfLen(n - 1), x \in SmallLineItems}

\* entries of a table of contents, declared levels from -1 to 4
TocEntry(level, title, page) == [level |-> level, title |-> title, page |-> page]
TocItems ==
    {TocEntry(0, "Overview", 1), TocEntry(1, "1. Intro", 1),
     TocEntry(2, " 1.1 Background ", 2), TocEntry(3, "1.1.1 Detail", 2),
     TocEntry(4, "Deep Section", 3), TocEntry(-1, "Preface", 1),
     TocEntry(1, "see https://a.b/c.git", 2), TocEntry(2, "12", 3)}

RECURSIVE TocsOfLen(_)
TocsOfLen(n) ==
    IF n = 0 THEN {<<>>}
    ELSE {Append(t, x) : t \in TocsOfLen(n - 1), x \in TocItems}

\* documents without a table of contents, and documents with one (and a
\* page of text, which is then not looked at)
Docs ==
    {[toc |-> <<>>, pages |-> pg] : pg \in UNION {PagesOfLen(n) : n \in 0..MaxLines}}
    \cup {[toc |-> <<>>, pages |-> pg] : pg \in UNION {PlainPagesOfLen(n) : n \in 0..MaxLines}}
    \cup {[toc |-> <<>>, pages |-> pg] : pg \in UNION {SmallPagesOfLen(n) : n \in 0..MaxLines}}
    \cup {[toc |-> t, pages |-> << <<<<Span("1. Intro", 12, 0)>>>> >>] :
            t \in UNION {TocsOfLen(n) : n \in 1..MaxLines}}

InitHeadings ==
    /\ op = "init"
    /\ doc \in Docs
    /\ headings = <<>>
    /\ text = "" /\ persona = "" /\ job = ""
    /\ tokens = <<>> /\ score = Zero
    /\ content = <<>> /\ sections = <<>>
    /\ documents_content = <<>> /\ all_sections = <<>>
    /\ scored_sections = <<>> /\ relevant_sections = <<>>
    /\ NoTitle /\ NoSubsections /\ NoRun

ExtractHeadings ==
    /\ op = "init"
    /\ op' = "_extract_headings"
    /\ headings' = _extract_headings(doc)
    /\ UNCHANGED <<text, persona, job, tokens, score, content, sections,
                   documents_content, all_sections, scored_sections,
                   relevant_sections, doc, title_vars, refiner_vars, run_vars>>

NextHeadings == ExtractHeadings

SpecHeadings == InitHeadings /\ [][NextHeadings]_vars

-----------------------------------------------------------------------------
(* Claims about the Heading Classifier, checked under SpecHeadings         *)

\* C7: every entry of every outline _extract_headings returns, from a table
\* of contents of any declared levels or from the layout with any font
\* sizes, has a level that is one of "H1", "H2", "H3".
C7_LevelIsH1H2H3 ==
    op = "_extract_headings" =>
        \A i \in 1..Len(headings) : headings[i].level \in {"H1", "H2", "H3"}

\* what the code does with a declared level below 1: min(level, 3) leaves it
\* as it is, and the entry has the level "H0"
C7_TocLevelZeroGivesH0 ==
    /\ op = "_extract_headings"
    /\ doc.toc = <<TocEntry(0, "Overview", 1)>>
    /\ headings = <<[level |-> "H0", text |-> "Overview", page |-> 1]>>

\* every span of the document has the same font size, and there is no table
\* of contents: the layout decides
SingleFontSize ==
    LET spans == spans_from(lines_from(doc.pages, 1), 1)
    IN  /\ doc.toc = <<>>
        /\ spans # <<>>
        /\ \A i \in 1..Len(spans) :
              spans[i].size = spans[1].size /\ FLess(Zero, spans[i].size)

\* the numbering of a heading text, which is what stands before its first
\* white space, and the text after it
NumberingOf(txt) == SubSeq(txt, 1, Find(txt, 1, SPACE) - 1)
TextAfterNumbering(txt) ==
    IF Find(txt, 1, SPACE) > Len(txt) THEN ""
    ELSE strip(SubSeq(txt, Find(txt, 1, SPACE), Len(txt)))
IsNumber(s) == Len(s) > 0 /\ \A i \in 1..Len(s) : CharAt(s, i) \in DIGIT

\* the forms "N. Text", "N.N Text" and "N.N.N Text": a number and a period,
\* two numbers or three numbers with periods between them, then white space
\* and a text
FormN(txt) ==
    /\ Len(TextAfterNumbering(txt)) > 0
    /\ \E parts \in {split(NumberingOf(txt), ".")} :
          Len(parts) = 2 /\ IsNumber(parts[1]) /\ Len(parts[2]) = 0
FormNN(txt) ==
    /\ Len(TextAfterNumbering(txt)) > 0
    /\ \E parts \in {split(NumberingOf(txt), ".")} :
          Len(parts) = 2 /\ IsNumber(parts[1]) /\ IsNumber(parts[2])
FormNNN(txt) ==
    /\ Len(TextAfterNumbering(txt)) > 0
    /\ \E parts \in {split(NumberingOf(txt), ".")} :
          Len(parts) = 3 /\ \A k \in 1..3 : IsNumber(parts[k])

\* the text after the numbering begins with one of the letters A to Z
BeginsUpperCase(txt) == In(TextAfterNumbering(txt), 1, UPPER)

HasTopLevelKeyword(txt) == \E w \in h1_keywords : contains(strip(lower(txt)), w)

\* C8 as stated: in a document of one font size the level of an emitted
\* heading follows from its numbering depth alone, "N. Text" is H1,
\* "N.N Text" is H2 and "N.N.N Text" is H3.
C8_LevelByNumberingDepthAlone ==
    (op = "_extract_headings" /\ SingleFontSize) =>
        \A i \in 1..Len(headings) :
            /\ FormN(headings[i].text) => headings[i].level = "H1"
            /\ FormNN(headings[i].text) => headings[i].level = "H2"
            /\ FormNNN(headings[i].text) => headings[i].level = "H3"

\* C8 amended: in a document of one font size an emitted heading of one of
\* the three forms whose text contains a top-level keyword is H1; without
\* such a keyword "N. Text" is H1 when Text begins with a letter A to Z
\* and H3 otherwise, "N.N Text" is H2 and "N.N.N Text" is H3.
C8_LevelByNumberingDepthUnlessKeyword ==
    (op = "_extract_headings" /\ SingleFontSize) =>
        \A i \in 1..Len(headings) :
            \A h \in {headings[i]} :
                IF HasTopLevelKeyword(h.text)
                THEN (FormN(h.text) \/ FormNN(h.text) \/ FormNNN(h.text))
                        => h.level = "H1"
                ELSE /\ FormN(h.text)
                        => h.level = IF BeginsUpperCase(h.text) THEN "H1" ELSE "H3"
                     /\ FormNN(h.text) => h.level = "H2"
                     /\ FormNNN(h.text) => h.level = "H3"

\* a document of one font size with headings of the three depths, and the
\* three levels assigned
C8_Witness ==
    /\ op = "_extract_headings"
    /\ SingleFontSize
    /\ Len(headings) = 3
    /\ FormN(headings[1].text) /\ headings[1].level = "H1"
    /\ FormNN(headings[2].text) /\ headings[2].level = "H2"
    /\ FormNNN(headings[3].text) /\ headings[3].level = "H3"

-----------------------------------------------------------------------------
(* Further claims about NLPAnalyzer, checked under SpecNLP                 *)

\* the token overlap of the text with a string, as calculate_relevance
\* computes it for the persona and for the job
overlap_with(txt, target) ==
    _calculate_token_overlap(_tokenize_and_clean(lower(txt)),
                             _tokenize_and_clean(lower(target)))

\* the scores calculate_relevance can return for the text with persona and
\* job swapped, one for each order of the loop of line 113
swapped_scores ==
    {calculate_relevance(text, job, persona, order)
        : order \in iterations_for(<<text>>, key_terms_of(job, persona))}

\* C11 as stated: when the token overlap of the text with the persona
\* differs from its overlap with the job, the score differs from the score
\* with persona and job swapped (from one such score at least, where the
\* order of the loop of line 113 decides it).
C11_SwapChangesScore ==
    (/\ op = "calculate_relevance"
     /\ overlap_with(text, persona) # overlap_with(text, job))
    => \E swapped \in swapped_scores : score # swapped

\* C11 amended: when the overlaps differ and the domain score is the same in
\* both orders, the score differs from the score with persona and job
\* swapped, and it is the greater of the two exactly when the overlap with
\* the job is the greater one (the job weighs 0.4, the persona 0.3).
C11_SwapChangesScoreWhenDomainScoreEqual ==
    (/\ op = "calculate_relevance"
     /\ overlap_with(text, persona) # overlap_with(text, job)
     /\ _calculate_domain_relevance(text, persona, job)
        = _calculate_domain_relevance(text, job, persona))
    => \A swapped \in swapped_scores :
           /\ score # swapped
           /\ FLess(swapped, score)
              <=> FLess(overlap_with(text, persona), overlap_with(text, job))

\* both overlaps above zero, the one with the job the smaller, the same
\* domain score in both orders, and the score below the swapped one
C11_Witness ==
    /\ op = "calculate_relevance"
    /\ FLess(Zero, overlap_with(text, job))
    /\ FLess(overlap_with(text, job), overlap_with(text, persona))
    /\ _calculate_domain_relevance(text, persona, job)
       = _calculate_domain_relevance(text, job, persona)
    /\ \A swapped \in swapped_scores : FLess(score, swapped)

-----------------------------------------------------------------------------
(* Further claims about the section ranking, checked under SpecRanking     *)

\* C16: every entry of extracted_sections has a text of at most 500
\* characters that is the first 500 characters of the body of an extracted
\* section of the same document, page and title, and the score it was ranked
\* by is the relevance of the full body of that section.
C16_TextCutScoreOnFullBody ==
    op = "_extract_relevant_sections" =>
        \E order \in ranking_iterations(documents_content, persona, job) :
        \A i \in 1..Len(relevant_sections) :
            /\ Len(relevant_sections[i].text) <= 500
            /\ Unranked(scored_sections[i]) = Unranked(relevant_sections[i])
            /\ \E k \in 1..Len(all_sections) :
                  /\ Reported(all_sections[k]) = Unranked(relevant_sections[i])
                  /\ relevant_sections[i].text = SubSeq(all_sections[k].text, 1,
                         Min(500, Len(all_sections[k].text)))
                  /\ scored_sections[i].importance_rank.float
                     = calculate_relevance(all_sections[k].text, persona, job, order)

\* a returned section with a body of more than 500 characters: its text has
\* 500 characters, and its score is not the relevance of those 500
C16_Witness ==
    /\ op = "_extract_relevant_sections"
    /\ \E i \in 1..Len(relevant_sections) : \E k \in 1..Len(all_sections) :
          /\ Reported(all_sections[k]) = Unranked(relevant_sections[i])
          /\ Len(all_sections[k].text) > 500
          /\ Len(relevant_sections[i].text) = 500
          /\ \E order \in ranking_iterations(documents_content, persona, job) :
                scored_sections[i].importance_rank.float
                = calculate_relevance(all_sections[k].text, persona, job, order)
          /\ \A order \in iterations_for(<<relevant_sections[i].text>>,
                                          key_terms_of(persona, job)) :
                scored_sections[i].importance_rank.float
                # calculate_relevance(relevant_sections[i].text, persona, job, order)

-----------------------------------------------------------------------------
(* Further claims about the Heading Classifier, checked under SpecHeadings *)

\* the lines of the document with the page and the text of a heading
LinesOfHeading(h) ==
    {l \in Range(lines_from(doc.pages, 1)) :
        l.page = h.page /\ line_text_of(l.spans) = h.text}

\* the font size of the line clears the largest threshold of the document
ClearsLargestThreshold(l) ==
    FGeq(max_font_size_of(l.spans, 1),
         heading_thresholds(collect_font_sizes(doc.pages))[1])

\* C19 as stated: in layout mode a heading line of the N.N style is always
\* H2 and one of the N.N.N style always H3, whatever its font size and
\* whatever else its text contains.
C19_DepthAloneDecides ==
    (op = "_extract_headings" /\ doc.toc = <<>>) =>
        \A i \in 1..Len(headings) :
            /\ match_numbered_h2(headings[i].text) => headings[i].level = "H2"
            /\ match_numbered_h3(headings[i].text) => headings[i].level = "H3"

\* C19 amended: in layout mode a heading line of the N.N.N style without a
\* top-level keyword is H3 whatever its font size; a heading line of the
\* N.N style without a top-level keyword is H1 when its font size clears
\* the largest threshold and H2 otherwise.
C19_DepthDecidesUnlessKeywordOrLargestFont ==
    (op = "_extract_headings" /\ doc.toc = <<>>) =>
        \A i \in 1..Len(headings) :
            LET h == headings[i]
            IN  /\ (match_numbered_h3(h.text) /\ ~HasTopLevelKeyword(h.text))
                   => h.level = "H3"
                /\ (match_numbered_h2(h.text) /\ ~HasTopLevelKeyword(h.text))
                   => \E l \in LinesOfHeading(h) :
                         h.level = IF ClearsLargestThreshold(l) THEN "H1" ELSE "H2"

\* a document with a heading of the N.N.N style and one of the N.N style,
\* neither with a keyword, both in the largest font: the first is H3, the
\* second H1
C19_Witness ==
    /\ op = "_extract_headings" /\ doc.toc = <<>>
    /\ \E i, j \in 1..Len(headings) :
          /\ match_numbered_h3(headings[i].text)
          /\ ~HasTopLevelKeyword(headings[i].text)
          /\ headings[i].level = "H3"
          /\ \E l \in LinesOfHeading(headings[i]) : ClearsLargestThreshold(l)
          /\ match_numbered_h2(headings[j].text)
          /\ ~HasTopLevelKeyword(headings[j].text)
          /\ headings[j].level = "H1"
          /\ \E l \in LinesOfHeading(headings[j]) : ClearsLargestThreshold(l)

\* the entry of the table of contents passes the URL/git filter and the
\* plausibility filter
PassesTocFilters(item) ==
    LET title == strip(item.title)
    IN  /\ ~search_http(title)
        /\ ~contains(lower(title), "github.com")
        /\ ~endswith(title, ".git")
        /\ _is_likely_heading(title)

PassingEntries == {i \in 1..Len(doc.toc) : PassesTocFilters(doc.toc[i])}

\* the k-th entry, in the order of the table, among those that pass
KthPassing(k) ==
    CHOOSE i \in PassingEntries : Cardinality({j \in PassingEntries : j < i}) = k - 1

\* C20: for a document with a table of contents that is not empty the
\* outline is the entries that pass the filters, in the order of the table,
\* each with the level "H" + min(declared level, 3), the trimmed title and
\* the declared page, and the layout is not used even when no entry passes;
\* for a document with an empty table the outline is that of the layout.
C20_TocPreferred ==
    op = "_extract_headings" =>
        IF doc.toc # <<>>
        THEN /\ Len(headings) = Cardinality(PassingEntries)
             /\ \A k \in 1..Len(headings) :
                   LET item == doc.toc[KthPassing(k)]
                   IN  /\ headings[k].level = "H" \o str(Min(item.level, 3))
                       /\ headings[k].text = strip(item.title)
                       /\ headings[k].page = item.page
        ELSE headings = _extract_headings_from_text(doc)

\* a table of contents of which no entry passes, an empty outline, and pages
\* of which the layout would give headings
C20_Witness ==
    /\ op = "_extract_headings"
    /\ Len(doc.toc) >= 2
    /\ PassingEntries = {}
    /\ headings = <<>>
    /\ _extract_headings_from_text(doc) # <<>>

-----------------------------------------------------------------------------
(* Round1AProcessor._extract_title, round1a.py lines 74-175 and 305-320     *)
(*                                                                         *)
(* A document is [name, metadata_title, toc, pages, heights]: name is       *)
(* doc.name, metadata_title is doc.metadata.get('title') with "" for a      *)
(* missing or None title, pages[p] is the sequence of the lines of page p,  *)
(* a line a sequence of spans [text, size, flags, y] with y = bbox[1], and  *)
(* heights[p] is page.rect.height.  page.get_text() is the text of the      *)
(* lines of the page, each followed by a line feed.                         *)

\* the index of the first occurrence of old in s, 0 if there is none
index_of(s, old) ==
    IF contains(s, old)
    THEN CHOOSE i \in 1..Len(s) :
             At(s, i, old) /\ \A k \in 1..(i - 1) : ~At(s, k, old)
    ELSE 0

\* str.replace(old, new), old not empty
RECURSIVE replace(_, _, _)
replace(s, old, new) ==
    LET i == index_of(s, old)
    IN  IF i = 0 THEN s
        ELSE SubSeq(s, 1, i - 1) \o new
             \o replace(SubSeq(s, i + Len(old), Len(s)), old, new)

\* the text of the spans of a line, one after the other
RECURSIVE span_texts(_, _)
span_texts(spans, i) ==
    IF i > Len(spans) THEN "" ELSE spans[i].text \o span_texts(spans, i + 1)

\* page.get_text() of the page made of these lines
RECURSIVE get_text(_, _)
get_text(lines, i) ==
    IF i > Len(lines) THEN ""
    ELSE span_texts(lines[i], 1) \o "\n" \o get_text(lines, i + 1)

\* re.findall(r'"([^"]+)"', s)
RECURSIVE findall_quoted(_)
findall_quoted(s) ==
    LET i == Find(s, 1, {"\""})
        j == Find(s, i + 1, {"\""})
    IN  IF i > Len(s) \/ j > Len(s) THEN <<>>
        ELSE IF j = i + 1 THEN findall_quoted(SubSeq(s, j, Len(s)))
        ELSE <<SubSeq(s, i + 1, j - 1)>> \o findall_quoted(SubSeq(s, j + 1, Len(s)))

\* any(word in s.lower() for word in words)
any_word_in(s, words) == \E w \in words : contains(lower(s), w)

non_title_patterns ==
    {"page ", "figure ", "table ", "section ", "chapter ",
     "http", "www.", ".com", ".pdf", "appendix"}

\* lines 93-105: the span is a title candidate of a page of this height;
\* y and height are whole numbers, and y < height * 0.4 is compared exactly
is_title_candidate(span, height) ==
    LET txt == strip(span.text)
    IN  /\ txt # "" /\ Len(txt) > 10 /\ Len(txt) < 150
        /\ FLess(Float(14), span.size)
        /\ 10 * span.y < 4 * height
        /\ ~any_word_in(txt, non_title_patterns)

\* lines 87-105: the candidates of page p (page_num = p - 1), in span order
title_candidates(d, p) ==
    LET spans == spans_from([i \in 1..Len(d.pages[p]) |-> [spans |-> d.pages[p][i]]], 1)
        kept == SelectSeq(spans, LAMBDA sp : is_title_candidate(sp, d.heights[p]))
    IN  [i \in 1..Len(kept) |->
            [text |-> strip(kept[i].text), font_size |-> kept[i].size,
             y |-> kept[i].y, page_num |-> p - 1]]

\* the sort key (-x[1], x[2], x[3]) of line 108: a comes before b
candidate_before(a, b) ==
    \/ FLess(b.font_size, a.font_size)
    \/ a.font_size = b.font_size /\ a.y < b.y
    \/ a.font_size = b.font_size /\ a.y = b.y /\ a.page_num < b.page_num

\* line 108: list.sort, which is stable
sort_candidates(cands) ==
    LET n == Len(cands)
        pos == [i \in 1..n |->
                   Cardinality({j \in 1..n : candidate_before(cands[j], cands[i])})
                   + Cardinality({j \in 1..(i - 1) :
                                     /\ ~candidate_before(cands[j], cands[i])
                                     /\ ~candidate_before(cands[i], cands[j])}) + 1]
    IN  IF n = 0 THEN <<>>
        ELSE [k \in 1..n |-> cands[CHOOSE i \in 1..n : pos[i] = k]]

ChallengeTitle == "\"Connecting the Dots\" Challenge"

\* lines 112-113 and 156
names_the_challenge(s) ==
    contains(s, "\"Connecting the Dots\"") /\ contains(s, "Challenge")

\* lines 124-125
is_title_like(txt) ==
    \/ contains(txt, "\"")
    \/ CharAt(txt, 1) \in UPPER
    \/ any_word_in(txt, {"challenge", "hackathon", "introduction"})

\* line 128
is_complete_title(txt) ==
    contains(lower(txt), "connecting") /\ contains(lower(txt), "challenge")

\* lines 305-320; [found |-> FALSE] stands for None
_extract_quoted_title(d, p) ==
    LET matches == findall_quoted(get_text(d.pages[p], 1))
        good == SelectSeq(matches, LAMBDA m :
                    Len(m) > 10
                    /\ any_word_in(m, {"challenge", "hackathon", "connecting", "dots"}))
    IN  IF good = <<>> THEN [found |-> FALSE, title |-> ""]
        ELSE [found |-> TRUE, title |-> strip(good[1])]

\* lines 82-145 from page p on: the return statement taken and its value,
\* line 0 if the loop ends without one
RECURSIVE scan_title_pages(_, _)
scan_title_pages(d, p) ==
    IF p > Min(3, Len(d.pages)) THEN [line |-> 0, title |-> ""]
    ELSE LET cands == sort_candidates(title_candidates(d, p))
             page_text == get_text(d.pages[p], 1)
             title_like == SelectSeq(cands, LAMBDA c : is_title_like(c.text))
             complete_titles == SelectSeq(title_like, LAMBDA c : is_complete_title(c.text))
             partial_titles == SelectSeq(title_like, LAMBDA c : ~is_complete_title(c.text))
             full_title == _extract_quoted_title(d, p)
         IN  IF names_the_challenge(page_text)
             THEN [line |-> 115, title |-> ChallengeTitle]
             ELSE IF complete_titles # <<>>
             THEN [line |-> 135,
                   title |-> strip(replace(complete_titles[1].text, "\"", ""))]
             ELSE IF partial_titles # <<>>
             THEN IF contains(partial_titles[1].text, "\"") /\ full_title.found
                  THEN [line |-> 144, title |-> full_title.title]
                  ELSE [line |-> 145,
                        title |-> strip(replace(partial_titles[1].text, "\"", ""))]
             ELSE scan_title_pages(d, p + 1)

title_words == {"challenge", "hackathon", "connecting", "dots"}

\* lines 158-160, on a line that is stripped
is_title_line(line) ==
    Len(line) > 15 /\ Len(line) < 100 /\ any_word_in(line, title_words)

\* lines 152-161: the first ten lines of the text of the first page
first_lines_title(first_page_text) ==
    LET lines == split(first_page_text, "\n")
        n == Min(10, Len(lines))
        hit(i) == \/ names_the_challenge(strip(lines[i]))
                  \/ is_title_line(strip(lines[i]))
    IN  IF \E i \in 1..n : hit(i)
        THEN LET i == CHOOSE k \in 1..n : hit(k) /\ \A m \in 1..(k - 1) : ~hit(m)
             IN  IF names_the_challenge(strip(lines[i]))
                 THEN [line |-> 157, title |-> ChallengeTitle]
                 ELSE [line |-> 161, title |-> strip(lines[i])]
        ELSE [line |-> 0, title |-> ""]

\* sorted(matches, key=len, reverse=True), which is stable
sorted_by_len(matches) ==
    LET n == Len(matches)
        pos == [i \in 1..n |->
                   Cardinality({j \in 1..n : Len(matches[j]) > Len(matches[i])})
                   + Cardinality({j \in 1..(i - 1) : Len(matches[j]) = Len(matches[i])}) + 1]
    IN  IF n = 0 THEN <<>>
        ELSE [k \in 1..n |-> matches[CHOOSE i \in 1..n : pos[i] = k]]

\* lines 164-169
quoted_title(first_page_text) ==
    LET good == SelectSeq(sorted_by_len(findall_quoted(first_page_text)), LAMBDA m :
                    Len(m) > 10
                    /\ any_word_in(m, title_words \cup {"intelligence"}))
    IN  IF good = <<>> THEN [line |-> 0, title |-> ""]
        ELSE [line |-> 169, title |-> strip(good[1])]

\* lines 172-175
cleaned_filename(name) ==
    LET parts == split(name, "/")
        filename == IF name # "" THEN replace(parts[Len(parts)], ".pdf", "")
                    ELSE "Untitled Document"
    IN  replace(replace(filename, "_", " "), "-", " ")

\* lines 74-175 with the page layout tried before the metadata
extract_title_layout_first(d) ==
    LET layout == scan_title_pages(d, 1)
    IN  IF layout.line # 0 THEN layout
        ELSE IF d.metadata_title # "" /\ strip(d.metadata_title) # ""
        THEN [line |-> 79, title |-> strip(d.metadata_title)]
        ELSE [line |-> 175, title |-> cleaned_filename(d.name)]

\* lines 74-175: the return statement taken and the title it returns
extract_title_return(d) ==
    LET layout == scan_title_pages(d, 1)
        first_page_text == get_text(d.pages[1], 1)
        by_line == first_lines_title(first_page_text)
        by_quote == quoted_title(first_page_text)
    IN  IF d.metadata_title # "" /\ strip(d.metadata_title) # ""
        THEN [line |-> 79, title |-> strip(d.metadata_title)]
        ELSE IF layout.line # 0 THEN layout
        ELSE IF Len(d.pages) > 0 /\ by_line.line # 0 THEN by_line
        ELSE IF Len(d.pages) > 0 /\ by_quote.line # 0 THEN by_quote
        ELSE [line |-> 175, title |-> cleaned_filename(d.name)]

_extract_title(d) == extract_title_return(d).title

-----------------------------------------------------------------------------
(* Inputs and specification of the Title Resolver                          *)

MaxSpans == 3

TitleSpan(txt, size, y) == [text |-> txt, size |-> Float(size), flags |-> 0, y |-> y]

\* the lines of a page 100 high, one span each: two capitalised lines in
\* sizes 16 and 24; the line of the special case; a line with "connecting"
\* and "challenge"; a line with a quoted phrase; a large line that is not
\* title-like; two lines in a small font lower on the page, one with a
\* title word, one with a quoted phrase; a large line at 40% of the height;
\* a large figure caption
TitleLines ==
    {<<TitleSpan("Project Overview Notes", 16, 10)>>,
     <<TitleSpan("Annual Research Report", 24, 10)>>,
     <<TitleSpan("\"Connecting the Dots\" Challenge", 20, 10)>>,
     <<TitleSpan("Connecting people: the challenge", 18, 20)>>,
     <<TitleSpan("the \"Grand Hackathon Final\" event", 16, 10)>>,
     <<TitleSpan("lowercase words without keyword", 30, 10)>>,
     <<TitleSpan("Welcome to the hackathon of the year", 12, 60)>>,
     <<TitleSpan("An \"artificial intelligence\" primer", 12, 70)>>,
     <<TitleSpan("Large Text Low On The Page", 24, 40)>>,
     <<TitleSpan("Figure 1 shows the overall design", 20, 10)>>}

\* the pages of a document made of n lines and page breaks
RECURSIVE TitlePagesOfLen(_)
TitlePagesOfLen(n) ==
    IF n = 0 THEN {<< <<>> >>}
    ELSE {AddLine(pg, x) : pg \in TitlePagesOfLen(n - 1), x \in TitleLines \cup {NewPage}}

\* a document without pages, and the documents of up to MaxSpans lines
TitlePages == {<<>>} \cup UNION {TitlePagesOfLen(n) : n \in 0..MaxSpans}

\* metadata title and file name of a document
TitleSources ==
    {[metadata_title |-> "", name |-> "/in/my_file-v2.pdf"],
     [metadata_title |-> "  ", name |-> "/in/my_file-v2.pdf"],
     [metadata_title |-> " Annual Report ", name |-> "/in/my_file-v2.pdf"],
     [metadata_title |-> "", name |-> ""]}

TitleDocs ==
    {[name |-> src.name, metadata_title |-> src.metadata_title, toc |-> <<>>,
      pages |-> pg, heights |-> [p \in 1..Len(pg) |-> 100]] :
        src \in TitleSources, pg \in TitlePages}

InitTitle ==
    /\ op = "init"
    /\ doc \in TitleDocs
    /\ text = "" /\ persona = "" /\ job = ""
    /\ tokens = <<>> /\ score = Zero
    /\ content = <<>> /\ sections = <<>>
    /\ documents_content = <<>> /\ all_sections = <<>>
    /\ scored_sections = <<>> /\ relevant_sections = <<>>
    /\ headings = <<>>
    /\ NoTitle /\ NoSubsections /\ NoRun

ExtractTitle ==
    /\ op = "init"
    /\ op' = "_extract_title"
    /\ \E r \in {extract_title_return(doc)} :
           /\ doc_title' = r.title
           /\ returned_at' = r.line
    /\ UNCHANGED <<text, persona, job, tokens, score, content, sections,
                   documents_content, all_sections, scored_sections,
                   relevant_sections, doc, headings, refiner_vars, run_vars>>

NextTitle == ExtractTitle

SpecTitle == InitTitle /\ [][NextTitle]_vars

-----------------------------------------------------------------------------
(* Claims about the Title Resolver, checked under SpecTitle                *)

\* the pages the layout scan can look at
FirstPages == 1..Min(3, Len(doc.pages))

\* the spans of page p
SpansOfPage(p) ==
    UNION {Range(doc.pages[p][l]) : l \in 1..Len(doc.pages[p])}

\* the span is a title candidate of page p that is title-like
Qualifies(sp, p) ==
    is_title_candidate(sp, doc.heights[p]) /\ is_title_like(strip(sp.text))

\* page p gives a layout title: a qualifying candidate or the special case
PageGivesTitle(p) ==
    \/ names_the_challenge(get_text(doc.pages[p], 1))
    \/ \E sp \in SpansOfPage(p) : Qualifies(sp, p)

\* one of the two fallbacks on the text of the first page matches
TextFallbackMatches ==
    /\ Len(doc.pages) > 0
    /\ LET first_page_text == get_text(doc.pages[1], 1)
           lines == split(first_page_text, "\n")
       IN  \/ \E i \in 1..Min(10, Len(lines)) :
                 \/ names_the_challenge(strip(lines[i]))
                 \/ is_title_line(strip(lines[i]))
           \/ \E m \in Range(findall_quoted(first_page_text)) :
                 Len(m) > 10 /\ any_word_in(m, title_words \cup {"intelligence"})

MetadataTitleBlank == strip(doc.metadata_title) = ""

\* C17: the strategies are tried in a fixed order.  A metadata title that
\* is not blank is returned trimmed whatever the pages contain; a layout
\* title is returned only when the metadata title is blank; a title from
\* the text of the first page only when, moreover, no page of the first
\* three gives a layout title; and the cleaned file name only when,
\* moreover, neither fallback on the text of the first page matches.
C17_StrategiesInOrder ==
    op = "_extract_title" =>
        /\ ~MetadataTitleBlank =>
              doc_title = strip(doc.metadata_title) /\ returned_at = 79
        /\ returned_at \in {115, 135, 144, 145} => MetadataTitleBlank
        /\ returned_at \in {157, 161, 169} =>
              MetadataTitleBlank /\ \A p \in FirstPages : ~PageGivesTitle(p)
        /\ returned_at = 175 =>
              /\ MetadataTitleBlank
              /\ \A p \in FirstPages : ~PageGivesTitle(p)
              /\ ~TextFallbackMatches
              /\ doc_title = cleaned_filename(doc.name)

\* a metadata title with blanks around it is returned trimmed for a
\* document whose first page names the challenge of the special case
C17_Witness ==
    /\ op = "_extract_title"
    /\ doc.metadata_title = " Annual Report "
    /\ Len(doc.pages) > 0
    /\ names_the_challenge(get_text(doc.pages[1], 1))
    /\ doc_title = "Annual Report"

\* the title candidates of the first pages from page p on, page after page
RECURSIVE candidates_from(_, _)
candidates_from(d, p) ==
    IF p > Min(3, Len(d.pages)) THEN <<>>
    ELSE title_candidates(d, p) \o candidates_from(d, p + 1)

\* the layout title of lines 117-145 taken from a sorted list of candidates
\* whose first title-like one is on page p
layout_title_of(d, cands) ==
    LET title_like == SelectSeq(cands, LAMBDA c : is_title_like(c.text))
        complete_titles == SelectSeq(title_like, LAMBDA c : is_complete_title(c.text))
        partial_titles == SelectSeq(title_like, LAMBDA c : ~is_complete_title(c.text))
        full_title == _extract_quoted_title(d, partial_titles[1].page_num + 1)
    IN  IF complete_titles # <<>>
        THEN strip(replace(complete_titles[1].text, "\"", ""))
        ELSE IF contains(partial_titles[1].text, "\"") /\ full_title.found
        THEN full_title.title
        ELSE strip(replace(partial_titles[1].text, "\"", ""))

\* the pages among the first three with a qualifying candidate
PagesWithQualifying ==
    {p \in FirstPages : \E sp \in SpansOfPage(p) : Qualifies(sp, p)}

\* C18: when the metadata title is blank, no page names the challenge of
\* the special case and qualifying candidates exist on more than one of the
\* first three pages, the title is the layout title of the candidates of
\* all these pages sorted together by (largest font size, smallest vertical
\* position, lowest page index).
C18_BestCandidateOfAllPages ==
    (/\ op = "_extract_title"
     /\ MetadataTitleBlank
     /\ \A p \in FirstPages : ~names_the_challenge(get_text(doc.pages[p], 1))
     /\ Cardinality(PagesWithQualifying) > 1)
    => doc_title = layout_title_of(doc, sort_candidates(candidates_from(doc, 1)))

\* a capitalised line in size 16 on the first page and one in size 24 on
\* the second: the title is the line of the first page
C18_FirstPageWins ==
    /\ op = "_extract_title"
    /\ MetadataTitleBlank
    /\ Len(doc.pages) = 2
    /\ doc.pages[1] = << <<TitleSpan("Project Overview Notes", 16, 10)>> >>
    /\ doc.pages[2] = << <<TitleSpan("Annual Research Report", 24, 10)>> >>
    /\ doc_title = "Project Overview Notes"
    /\ returned_at = 145

-----------------------------------------------------------------------------
(* The Subsection Refiner: Round1BProcessor._analyze_subsections and       *)
(* _extract_key_points (round1b.py lines 189-229) and                      *)
(* NLPAnalyzer.refine_text_for_persona (nlp_analyzer.py lines 161-190)     *)

SentenceEnd == {".", "!", "?"}

\* A local variable of the code is bound here as the member of a set of one
\* element, CHOOSE r \in {... x ... : x \in {value}} : TRUE, which computes
\* its value once, as the assignment does.

\* re.split(r'[.!?]+', s)
RECURSIVE re_split_sentences(_)
re_split_sentences(s) ==
    CHOOSE r \in
        {IF i > Len(s) THEN <<s>>
         ELSE <<SubSeq(s, 1, i - 1)>>
              \o re_split_sentences(SubSeq(s, RunEnd(s, i, SentenceEnd), Len(s)))
            : i \in {Find(s, 1, SentenceEnd)}} : TRUE

\* seq[:n]
first_n(seq, n) == SubSeq(seq, 1, Min(n, Len(seq)))

\* the stripped pieces longer than 20 characters
long_sentences(pieces) ==
    SelectSeq(AsList([i \in 1..Len(pieces) |-> strip(pieces[i])]),
              LAMBDA x : Len(x) > 20)

\* round1b.py lines 216-224 and nlp_analyzer.py lines 167-175: the stripped
\* sentences longer than 20 characters, each with its relevance score
scored_sentences_of(txt, pers, jb, order) ==
    CHOOSE r \in
        {AsList([i \in 1..Len(kept) |->
                   [sentence |-> kept[i],
                    score |-> calculate_relevance(kept[i], pers, jb, order)]])
            : kept \in {long_sentences(re_split_sentences(txt))}} : TRUE

\* scored_sentences.sort(key=lambda x: x[1], reverse=True), which is stable
sort_by_score(scored_sentences) ==
    CHOOSE r \in
        {LET n == Len(scored)
             pos == [i \in 1..n |->
                        Cardinality({j \in 1..n : FLess(scored[i].score, scored[j].score)})
                        + Cardinality({j \in 1..(i - 1) : scored[j].score = scored[i].score})
                        + 1]
         IN  IF n = 0 THEN <<>>
             ELSE AsList([k \in 1..n |-> scored[CHOOSE i \in 1..n : pos[i] = k]])
            : scored \in {scored_sentences}} : TRUE

\* round1b.py lines 213-229
_extract_key_points(txt, pers, jb, order) ==
    CHOOSE r \in
        {AsList([i \in 1..Len(top) |-> top[i].sentence])
            : top \in {first_n(sort_by_score(scored_sentences_of(txt, pers, jb, order)),
                                5)}} : TRUE

\* sep.join(seq)
RECURSIVE join(_, _)
join(seq, sep) ==
    IF seq = <<>> THEN ""
    ELSE IF Len(seq) = 1 THEN seq[1]
    ELSE seq[1] \o sep \o join(Tail(seq), sep)

\* nlp_analyzer.py lines 178-187: the three best sentences joined, and the
\* fourth added to a text shorter than 100 characters
join_top_sentences(scored) ==
    CHOOSE r \in
        {IF Len(joined) < 100 /\ Len(scored) > 3
         THEN joined \o ". " \o scored[4].sentence
         ELSE joined
            : joined \in {join(AsList([i \in 1..Min(3, Len(scored)) |->
                                         scored[i].sentence]), ". ")}} : TRUE

\* nlp_analyzer.py lines 161-190
refine_text_for_persona(txt, pers, jb, order) ==
    IF txt = "" \/ Len(txt) < 50 THEN txt
    ELSE CHOOSE r \in
            {IF refined_text # "" /\ ~endswith(refined_text, ".")
             THEN strip(refined_text) \o "."
             ELSE refined_text
                : refined_text \in
                    {CHOOSE t \in
                        {join_top_sentences(scored)
                            : scored \in {sort_by_score(
                                             scored_sentences_of(txt, pers, jb, order))}}
                        : TRUE}} : TRUE

\* round1b.py lines 195-206 with the key points numbered upwards
excerpts_of_counting_up(section, pers, jb, order) ==
    CHOOSE r \in
        {AsList([i \in 1..Len(key_points) |->
                   [document |-> section.document,
                    page_number |-> section.page_number,
                    refined_text |-> refine_text_for_persona(key_points[i], pers, jb, order),
                    relevance_score |-> i]])
            : key_points \in {_extract_key_points(section.text, pers, jb, order)}} : TRUE

\* round1b.py lines 195-206: the dicts appended for one section; the i of
\* enumerate is the index here minus one
excerpts_of(section, pers, jb, order) ==
    CHOOSE r \in
        {AsList([i \in 1..Len(key_points) |->
                   [document |-> section.document,
                    page_number |-> section.page_number,
                    refined_text |-> refine_text_for_persona(key_points[i], pers, jb, order),
                    relevance_score |-> Len(key_points) - (i - 1)]])
            : key_points \in {_extract_key_points(section.text, pers, jb, order)}} : TRUE

\* round1b.py lines 193-206: the dicts of sections[:10] from the k-th on
RECURSIVE excerpts_from(_, _, _, _, _)
excerpts_from(secs, k, pers, jb, order) ==
    IF k > Min(10, Len(secs)) THEN <<>>
    ELSE excerpts_of(secs[k], pers, jb, order)
         \o excerpts_from(secs, k + 1, pers, jb, order)

\* subsections.sort(key=lambda x: x['relevance_score'], reverse=True)
sort_by_relevance_score(subsection_list) ==
    CHOOSE r \in
        {LET n == Len(subs)
             pos == [i \in 1..n |->
                        Cardinality({j \in 1..n :
                                        subs[j].relevance_score > subs[i].relevance_score})
                        + Cardinality({j \in 1..(i - 1) :
                                          subs[j].relevance_score = subs[i].relevance_score})
                        + 1]
         IN  IF n = 0 THEN <<>>
             ELSE AsList([k \in 1..n |-> subs[CHOOSE i \in 1..n : pos[i] = k]])
            : subs \in {subsection_list}} : TRUE

\* round1b.py lines 189-211
_analyze_subsections(secs, pers, jb, order) ==
    first_n(sort_by_relevance_score(excerpts_from(secs, 1, pers, jb, order)), 15)

\* the sentences _extract_key_points and refine_text_for_persona can score
\* for a section: those of its text as cut to 500 characters
RECURSIVE sentence_texts(_, _)
sentence_texts(all, k) ==
    IF k > Len(all) THEN <<>>
    ELSE long_sentences(re_split_sentences(prefix(all[k].text, 500)))
         \o sentence_texts(all, k + 1)

\* the orders of the loop of nlp_analyzer.py line 113 in a process that
\* ranks the sections of these documents and analyzes their subsections
analysis_iterations(dc, pers, jb) ==
    CHOOSE r \in
        {iterations_for([k \in 1..Len(all) |-> all[k].text] \o sentence_texts(all, 1),
                        key_terms_of(pers, jb))
            : all \in {AsList(extract_sections_from(dc, 1))}} : TRUE

-----------------------------------------------------------------------------
(* A run of main: main.py lines 19-92, Round1AProcessor.process_directory  *)
(* and extract_structure (round1a.py lines 23-72), Round1BProcessor        *)
(* .process_directory and analyze_documents (round1b.py lines 25-93)       *)
(*                                                                         *)
(* env is what the run starts from: the round, the --persona and --job     *)
(* options ("" when not given), persona.json and job.json of the input     *)
(* directory, the PDF files of the input directory in the order of         *)
(* iterdir(), and what writing challenge1b_output.json does.  A PDF file    *)
(* is [name, readable, doc, content, write]: fitz.open raises on a file     *)
(* that is not readable; write says what writing the output of the file    *)
(* does in structure mode: "ok", "open" (open() raises, the file is left    *)
(* as it was) or "dump" (json.dump raises, the file is left truncated).     *)
(* The output directory can be created.                                     *)

\* dict.get(key, default) of a dict given as a function
dict_get(d, key, default) == IF key \in DOMAIN d THEN d[key] ELSE default

\* name.rfind('.') counted from 1: the index of the last dot, 0 if none
rfind_dot(name) ==
    IF \E i \in 1..Len(name) : CharAt(name, i) = "."
    THEN CHOOSE i \in 1..Len(name) :
            /\ CharAt(name, i) = "."
            /\ \A k \in (i + 1)..Len(name) : CharAt(name, k) # "."
    ELSE 0

\* the last dot starts a suffix when it is neither the first nor the last
\* character of the name (pathlib: 0 < i < len(name) - 1 for the i of rfind)
has_suffix(name) == 1 < rfind_dot(name) /\ rfind_dot(name) < Len(name)

\* Path.suffix of a file name
suffix(name) ==
    IF has_suffix(name) THEN SubSeq(name, rfind_dot(name), Len(name)) ELSE ""

\* Path.stem of a file name
stem(name) ==
    IF has_suffix(name) THEN SubSeq(name, 1, rfind_dot(name) - 1) ELSE name

\* utils.is_pdf_file of the name of a regular file
is_pdf_file(name) == lower(suffix(name)) = ".pdf"

\* round1a.py lines 52-68 on a document that fitz.open has opened
extract_structure(d) ==
    [title |-> _extract_title(d), outline |-> _extract_headings(d)]

\* what a file holds after json.dump raised
Truncated == [truncated |-> TRUE]

\* the directory outs after file name has been written with content c
written(outs, name, c) ==
    [n \in DOMAIN outs \cup {name} |-> IF n = name THEN c ELSE outs[n]]

\* round1a.py lines 37-50 with the output of a failed document removed from
\* the directory together with every other output
process_pdf_file_clearing_outputs(outs, f) ==
    IF ~f.readable THEN <<>>
    ELSE IF f.write = "ok"
    THEN written(outs, stem(f.name) \o ".json", extract_structure(f.doc))
    ELSE outs

\* round1a.py lines 37-50: the output directory after the loop body has run
\* on the file f
process_pdf_file(outs, f) ==
    IF ~f.readable THEN outs
    ELSE IF f.write = "ok"
    THEN written(outs, stem(f.name) \o ".json", extract_structure(f.doc))
    ELSE IF f.write = "dump"
    THEN written(outs, stem(f.name) \o ".json", Truncated)
    ELSE outs

\* round1b.py lines 61-70 with a failed document kept, without content
extract_content_keeping_failed(dc, f) ==
    Append(dc, [file |-> f.name, content |-> IF f.readable THEN f.content ELSE <<>>])

\* round1b.py lines 61-70: documents_content after the loop body has run on
\* the file f
extract_content(dc, f) ==
    IF f.readable THEN Append(dc, [file |-> f.name, content |-> f.content])
    ELSE dc

\* round1b.py lines 82-91: the dict built of the two lists, now being what
\* datetime.now().isoformat() gives
result_dict(dc, pers, jb, relevant, subs, now) ==
    [metadata |-> [input_documents |-> AsList([i \in 1..Len(dc) |-> dc[i].file]),
                   persona |-> pers,
                   job_to_be_done |-> jb,
                   processing_timestamp |-> now],
     extracted_sections |-> relevant,
     subsection_analysis |-> subs]

\* round1b.py lines 76-93, documents_content not empty: the dict
\* analyze_documents returns
analysis_result(dc, pers, jb, now, order) ==
    CHOOSE r \in
        {result_dict(dc, pers, jb, relevant,
                     _analyze_subsections(relevant, pers, jb, order), now)
         : relevant \in {_extract_relevant_sections(dc, pers, jb, order)}} : TRUE

\* main.py lines 62-77: the persona and the job process_directory is called
\* with, or ok = FALSE when main exits at line 77
resolve_persona_job(e) ==
    IF e.persona # "" /\ e.job # ""
    THEN [ok |-> TRUE, persona |-> e.persona, job |-> e.job]
    ELSE IF e.persona_file.exists /\ e.job_file.exists
    THEN [ok |-> TRUE,
          persona |-> dict_get(e.persona_file.data, "persona", ""),
          job |-> dict_get(e.job_file.data, "job", "")]
    ELSE [ok |-> FALSE, persona |-> e.persona, job |-> e.job]

-----------------------------------------------------------------------------
(* Inputs and specification of a run                                       *)

MaxFiles == 2

\* names of regular files; ".pdf" and "notes.txt" are no PDF files
FileNames == {"a.pdf", "b.pdf", "a.PDF", ".pdf", "notes.txt"}

\* the document of a file: one with a metadata title and a table of
\* contents, one with a title and headings in its layout, one with neither
FileDoc(name) ==
    IF name = "a.pdf"
    THEN [name |-> "input/a.pdf", metadata_title |-> " Annual Report ",
          toc |-> <<TocEntry(1, "1. Intro", 1)>>,
          pages |-> << <<<<TitleSpan("Project Overview Notes", 16, 10)>>>> >>,
          heights |-> <<100>>]
    ELSE IF name = "b.pdf"
    THEN [name |-> "input/b.pdf", metadata_title |-> "", toc |-> <<>>,
          pages |-> << <<<<TitleSpan("Project Overview Notes", 16, 10)>>,
                        <<TitleSpan("1.1 Background", 12, 30)>>>> >>,
          heights |-> <<100>>]
    ELSE [name |-> "input/" \o name, metadata_title |-> "", toc |-> <<>>,
          pages |-> <<>>, heights |-> <<>>]

\* the page texts of a file
FileContent(name) ==
    IF name = "a.pdf" THEN <<MLBody>>
    ELSE IF name = "b.pdf" THEN <<RivalBody>>
    ELSE <<NeutralBody, DomainBody>>

WriteOutcomes == {"ok", "open", "dump"}

\* what datetime.now().isoformat() gives at line 87 of round1b.py
Timestamps == {"2025-07-28T09:15:00", "2025-07-28T09:15:01.250000"}

PdfFile(name, readable, write) ==
    [name |-> name, readable |-> readable, doc |-> FileDoc(name),
     content |-> FileContent(name), write |-> write]

\* the directory listings of n PDF files with different names
RECURSIVE ListingsOfLen(_)
ListingsOfLen(n) ==
    IF n = 0 THEN {<<>>}
    ELSE {Append(l, PdfFile(name, readable, write)) :
            l \in ListingsOfLen(n - 1),
            name \in FileNames, readable \in BOOLEAN, write \in WriteOutcomes}

\* the files of the directory that is_pdf_file accepts (line 28)
Listings ==
    {l \in UNION {ListingsOfLen(n) : n \in 0..MaxFiles} :
        /\ \A i \in 1..Len(l) : is_pdf_file(l[i].name)
        /\ \A i, j \in 1..Len(l) : i # j => l[i].name # l[j].name}

Missing == [exists |-> FALSE, data |-> <<>>]
JsonFile(data) == [exists |-> TRUE, data |-> data]

PersonaFiles ==
    {Missing, JsonFile(<<>>), JsonFile([persona |-> ""]),
     JsonFile([persona |-> "Researcher"])}
JobFiles ==
    {Missing, JsonFile([job |-> ""]), JsonFile([job |-> "study network data"])}

Round1AEnvs ==
    {[round |-> "1a", persona |-> "", job |-> "",
      persona_file |-> Missing, job_file |-> Missing,
      pdf_files |-> l, write |-> "ok"] : l \in Listings}

\* in persona mode the outputs of the single files are not written
Round1BEnvs ==
    {[round |-> "1b", persona |-> pers, job |-> jb,
      persona_file |-> pf, job_file |-> jf,
      pdf_files |-> l, write |-> w] :
        pers \in {"", "Analyst"}, jb \in {"", "understand machine learning trends"},
        pf \in PersonaFiles, jf \in JobFiles,
        l \in {x \in Listings : \A i \in 1..Len(x) : x[i].write = "ok"},
        w \in WriteOutcomes}

InitRun ==
    /\ op = "init"
    /\ env \in Round1AEnvs \cup Round1BEnvs
    /\ pc = "main" /\ file_index = 0
    /\ processed = <<>> /\ outputs = <<>> /\ exit_status = -1
    /\ text = "" /\ persona = "" /\ job = ""
    /\ tokens = <<>> /\ score = Zero
    /\ content = <<>> /\ sections = <<>>
    /\ documents_content = <<>> /\ all_sections = <<>>
    /\ scored_sections = <<>> /\ relevant_sections = <<>>
    /\ doc = [toc |-> <<>>, pages |-> <<>>] /\ headings = <<>>
    /\ NoTitle /\ NoSubsections

\* what no action of a run changes
analysis_frame ==
    <<op, text, tokens, score, content, sections, all_sections,
      scored_sections, doc, headings, title_vars, env>>

\* what no action of a run changes before the analysis of persona mode
run_frame == <<analysis_frame, refiner_vars>>

\* main.py lines 43-45: the input directory holds no PDF file
MainRejectsDirectory ==
    /\ pc = "main"
    /\ env.pdf_files = <<>>
    /\ pc' = "exit" /\ exit_status' = 1
    /\ UNCHANGED <<run_frame, persona, job, documents_content,
                   relevant_sections, file_index, processed, outputs>>

\* main.py lines 53-56: structure mode calls process_directory
MainRound1A ==
    /\ pc = "main"
    /\ env.pdf_files # <<>>
    /\ env.round = "1a"
    /\ pc' = "Round1AProcessor.process_directory"
    /\ UNCHANGED <<run_frame, persona, job, documents_content,
                   relevant_sections, file_index, processed, outputs,
                   exit_status>>

\* main.py lines 58-80: persona mode resolves the persona and the job, and
\* exits or calls process_directory with them
MainRound1B ==
    /\ pc = "main"
    /\ env.pdf_files # <<>>
    /\ env.round = "1b"
    /\ \E r \in {resolve_persona_job(env)} :
           IF r.ok
           THEN /\ persona' = r.persona /\ job' = r.job
                /\ pc' = "Round1BProcessor.process_directory"
                /\ UNCHANGED exit_status
           ELSE /\ pc' = "exit" /\ exit_status' = 1
                /\ UNCHANGED <<persona, job>>
    /\ UNCHANGED <<run_frame, documents_content, relevant_sections,
                   file_index, processed, outputs>>

\* round1a.py lines 36-50: the loop body on the next file
ProcessPdfFile ==
    /\ pc = "Round1AProcessor.process_directory"
    /\ file_index < Len(env.pdf_files)
    /\ file_index' = file_index + 1
    /\ processed' = Append(processed, env.pdf_files[file_index + 1].name)
    /\ outputs' = process_pdf_file(outputs, env.pdf_files[file_index + 1])
    /\ UNCHANGED <<run_frame, persona, job, documents_content,
                   relevant_sections, pc, exit_status>>

\* the loop of round1a.py lines 36-50 is over: process_directory returns,
\* main.py lines 82-85 log the success and main returns
Round1AReturns ==
    /\ pc = "Round1AProcessor.process_directory"
    /\ file_index = Len(env.pdf_files)
    /\ pc' = "exit" /\ exit_status' = 0
    /\ UNCHANGED <<run_frame, persona, job, documents_content,
                   relevant_sections, file_index, processed, outputs>>

\* round1b.py lines 60-70: the loop body on the next file
ExtractContent ==
    /\ pc = "Round1BProcessor.process_directory"
    /\ file_index < Len(env.pdf_files)
    /\ file_index' = file_index + 1
    /\ processed' = Append(processed, env.pdf_files[file_index + 1].name)
    /\ documents_content' = extract_content(documents_content, env.pdf_files[file_index + 1])
    /\ UNCHANGED <<run_frame, persona, job, relevant_sections, pc, outputs,
                   exit_status>>

\* round1b.py lines 72-73, 51-53 and main.py lines 87-92: no document could
\* be read, the ValueError ends the run
AnalysisRaises ==
    /\ pc = "Round1BProcessor.process_directory"
    /\ file_index = Len(env.pdf_files)
    /\ documents_content = <<>>
    /\ pc' = "exit" /\ exit_status' = 1
    /\ UNCHANGED <<run_frame, persona, job, documents_content,
                   relevant_sections, file_index, processed, outputs>>

\* round1b.py lines 76-93 and 44-53, main.py lines 82-92: the analysis
\* (result is analysis_result(documents_content, persona, job, now, order), its
\* two lists computed before the clock is read), the writing of the output,
\* and the end of the run
AnalyzeAndSave ==
    /\ pc = "Round1BProcessor.process_directory"
    /\ file_index = Len(env.pdf_files)
    /\ documents_content # <<>>
    /\ \E order \in analysis_iterations(documents_content, persona, job) :
       \E relevant \in {_extract_relevant_sections(documents_content, persona, job,
                                                   order)} :
       \E subs \in {_analyze_subsections(relevant, persona, job, order)} :
       \E now \in Timestamps :
       \E result \in {result_dict(documents_content, persona, job,
                                  relevant, subs, now)} :
           /\ relevant_sections' = result.extracted_sections
           /\ subsections' = result.subsection_analysis
           /\ outputs' = IF env.write = "ok"
                         THEN written(outputs, "challenge1b_output.json", result)
                         ELSE IF env.write = "dump"
                         THEN written(outputs, "challenge1b_output.json", Truncated)
                         ELSE outputs
    /\ pc' = "exit"
    /\ exit_status' = IF env.write = "ok" THEN 0 ELSE 1
    /\ UNCHANGED <<analysis_frame, persona, job, documents_content, file_index,
                   processed>>

NextRun ==
    \/ MainRejectsDirectory
    \/ MainRound1A
    \/ MainRound1B
    \/ ProcessPdfFile
    \/ Round1AReturns
    \/ ExtractContent
    \/ AnalysisRaises
    \/ AnalyzeAndSave

SpecRun == InitRun /\ [][NextRun]_vars

-----------------------------------------------------------------------------
(* Claims about the handling of failures, checked under SpecRun            *)

\* the i-th PDF file of the input directory
File(i) == env.pdf_files[i]
OutputName(i) == stem(File(i).name) \o ".json"

\* the loop of structure mode has written, whole or in part, the output of
\* the i-th file
Writes(i) == File(i).readable /\ File(i).write # "open"

InRound1A == env.round = "1a" /\ pc \in {"Round1AProcessor.process_directory", "exit"}
InRound1B == env.round = "1b" /\ pc = "Round1BProcessor.process_directory"

\* C12: in structure mode a document whose extraction fails is skipped and
\* leaves the output directory as it was, and the loop goes on to the files
\* after it: at every point of the loop the output directory holds the
\* files written for the documents gone through that could be read, and
\* nothing for the others; a document that was read and written has the
\* structure of its own document in the file named by its stem (unless a
\* later document of the same stem wrote this file); and the run goes
\* through every file of the directory before it ends.
C12_FailedDocumentSkipped ==
    InRound1A =>
        /\ DOMAIN outputs = {OutputName(i) : i \in {j \in 1..file_index : Writes(j)}}
        /\ \A i \in 1..file_index :
              (/\ File(i).readable /\ File(i).write = "ok"
               /\ \A j \in (i + 1)..file_index :
                     Writes(j) => OutputName(j) # OutputName(i))
              => outputs[OutputName(i)] = extract_structure(File(i).doc)
        /\ processed = [i \in 1..file_index |-> File(i).name]
        /\ pc = "exit" /\ env.pdf_files # <<>> => file_index = Len(env.pdf_files)

\* a.pdf has been read and written, then b.pdf could not be read: the run
\* is over and the directory holds the output of a.pdf alone, unchanged
C12_Witness ==
    /\ env.round = "1a" /\ pc = "exit"
    /\ Len(env.pdf_files) = 2
    /\ File(1).name = "a.pdf" /\ File(1).readable /\ File(1).write = "ok"
    /\ File(2).name = "b.pdf" /\ ~File(2).readable
    /\ processed = <<"a.pdf", "b.pdf">>
    /\ DOMAIN outputs = {"a.json"}
    /\ outputs["a.json"] = extract_structure(FileDoc("a.pdf"))

\* the files gone through that could be read
ReadableUpTo(n) == SelectSeq(SubSeq(env.pdf_files, 1, n), LAMBDA f : f.readable)

\* the run ended after process_directory of persona mode was called
Round1BEnded == env.round = "1b" /\ pc = "exit" /\ processed # <<>>

\* C13: in persona mode the analyzed set is the documents that could be
\* read, in the order of the directory.  When the run ends with a written
\* output, metadata.input_documents lists these documents and no other,
\* every extracted section is of one of them, and the sections are those of
\* the analysis of these documents alone; when no document could be read
\* the run ends with exit status 1 and no output file.
C13_FailedDocumentExcluded ==
    /\ InRound1B \/ Round1BEnded =>
          documents_content =
              [i \in 1..Len(ReadableUpTo(file_index)) |->
                  [file |-> ReadableUpTo(file_index)[i].name,
                   content |-> ReadableUpTo(file_index)[i].content]]
    /\ Round1BEnded =>
          LET readable == ReadableUpTo(Len(env.pdf_files))
              names == [i \in 1..Len(readable) |-> readable[i].name]
          IN  /\ file_index = Len(env.pdf_files)
              /\ readable = <<>> => exit_status = 1 /\ outputs = <<>>
              /\ readable # <<>> /\ env.write = "ok" =>
                    /\ exit_status = 0
                    /\ DOMAIN outputs = {"challenge1b_output.json"}
                    /\ outputs["challenge1b_output.json"].metadata.input_documents = names
                    /\ \A k \in 1..Len(relevant_sections) :
                          relevant_sections[k].document \in Range(names)
                    /\ \E docs \in {[i \in 1..Len(readable) |->
                                       [file |-> readable[i].name,
                                        content |-> readable[i].content]]} :
                       \E order \in ranking_iterations(docs, persona, job) :
                          outputs["challenge1b_output.json"].extracted_sections
                          = _extract_relevant_sections(docs, persona, job, order)

\* a.pdf could not be read and b.pdf could: the output lists b.pdf alone
\* and has a section, of b.pdf
C13_Witness ==
    /\ Round1BEnded
    /\ Len(env.pdf_files) = 2
    /\ File(1).name = "a.pdf" /\ ~File(1).readable
    /\ File(2).name = "b.pdf" /\ File(2).readable
    /\ exit_status = 0
    /\ outputs["challenge1b_output.json"].metadata.input_documents = <<"b.pdf">>
    /\ Len(relevant_sections) = 1
    /\ relevant_sections[1].document = "b.pdf"

\* the persona or the job is given neither on the command line nor as a
\* value that is not empty in persona.json / job.json
PersonaOrJobMissing ==
    /\ env.persona = "" \/ env.job = ""
    /\ \/ ~env.persona_file.exists
       \/ ~env.job_file.exists
       \/ dict_get(env.persona_file.data, "persona", "") = ""
       \/ dict_get(env.job_file.data, "job", "") = ""

\* C14: in persona mode Round1BProcessor.process_directory is never called
\* with an empty persona or an empty job, and a run whose persona or job is
\* missing or empty ends with exit status 1 before any document is
\* processed.
C14_EmptyPersonaOrJobFatal ==
    /\ InRound1B => persona # "" /\ job # ""
    /\ env.round = "1b" /\ pc = "exit" /\ PersonaOrJobMissing =>
          exit_status = 1 /\ processed = <<>>

\* no --persona and no --job, persona.json holds an empty persona and
\* job.json a job: the run analyzed a document with the empty persona and
\* ended with exit status 0
C14_EmptyPersonaAnalyzed ==
    /\ Round1BEnded
    /\ env.persona = "" /\ env.job = ""
    /\ env.persona_file = JsonFile([persona |-> ""])
    /\ env.job_file = JsonFile([job |-> "study network data"])
    /\ persona = "" /\ job = "study network data"
    /\ exit_status = 0
    /\ outputs["challenge1b_output.json"].metadata.persona = ""

\* writing an output file has failed in the part of the run that is over
WriteFailed ==
    \/ /\ env.round = "1a"
       /\ \E i \in 1..file_index : File(i).readable /\ File(i).write # "ok"
    \/ /\ Round1BEnded /\ documents_content # <<>> /\ env.write # "ok"

\* the last file gone through is the first one whose output could not be
\* written
StoppedAtFirstWriteFailure ==
    env.round = "1a" =>
        \A i \in 1..(file_index - 1) : ~(File(i).readable /\ File(i).write # "ok")

\* C15: in both modes, once writing an output file has failed no further
\* document is processed, and the run ends with exit status 1.
C15_WriteFailureFatal ==
    WriteFailed =>
        /\ StoppedAtFirstWriteFailure
        /\ pc = "exit" => exit_status = 1

\* structure mode: the output of a.pdf could not be written, b.pdf was
\* processed and written after that, and the run ended with exit status 0
C15_WriteFailureSwallowed ==
    /\ env.round = "1a" /\ pc = "exit"
    /\ Len(env.pdf_files) = 2
    /\ File(1).name = "a.pdf" /\ File(1).readable /\ File(1).write = "open"
    /\ File(2).name = "b.pdf" /\ File(2).readable /\ File(2).write = "ok"
    /\ processed = <<"a.pdf", "b.pdf">>
    /\ DOMAIN outputs = {"b.json"}
    /\ exit_status = 0

-----------------------------------------------------------------------------
(* Inputs and specification of the Subsection Refiner: lines 76-79 of      *)
(* analyze_documents, _extract_relevant_sections followed by               *)
(* _analyze_subsections                                                     *)

MaxBatch == 2

SentML == "machine learning trends are studied by every researcher"
SentShort == "network data is collected"
SentNeutral == "the weather was pleasant for the whole week of the trip"

\* a page of one section with three sentences, the second one of 25
\* characters
ThreePoints == SentNeutral \o ". " \o SentShort \o ". " \o SentML \o "."

\* a page of one section of 594 characters whose last sentence begins
\* after character 500
LongSentences ==
    Body(191) \o ". " \o Body(191) \o ". " \o Body(150) \o ". " \o SentML \o "."

\* a page of one section with six sentences longer than 20 characters
SixPoints ==
    SentML \o ". " \o SentNeutral \o "! " \o SentShort \o "? " \o SentML
    \o " again. " \o SentNeutral \o " again. " \o SentShort \o " again."

\* a page of six sections with two sentences each
SixSections ==
    SentML \o ". " \o SentNeutral \o "."
    \o "\nHEADER ONE\n" \o SentNeutral \o ". " \o SentML \o "."
    \o "\n1. Intro\n" \o SentML \o ". " \o SentML \o "."
    \o "\nResults\n" \o SentNeutral \o ". " \o SentNeutral \o "."
    \o "\nHEADER ONE\n" \o SentML \o ". " \o SentNeutral \o "."
    \o "\n1. Intro\n" \o SentNeutral \o ". " \o SentML \o "."

\* a page of two sections of one sentence each: the two bodies whose scores
\* depend on the order of the loop of nlp_analyzer.py line 113
OrderSections == TrendsBody \o "\nHEADER ONE\n" \o LearningBody

\* the fifth has a page too short to give a section
RefinerContents ==
    {<<ThreePoints>>, <<LongSentences>>, <<SixPoints>>, <<SixSections>>,
     <<"short", OrderSections>>, <<ThreePoints, SixPoints>>}

RECURSIVE RefinerBatchesOfLen(_)
RefinerBatchesOfLen(n) ==
    IF n = 0 THEN {<<>>}
    ELSE {Append(b, [file |-> DocName(n), content |-> c]) :
            b \in RefinerBatchesOfLen(n - 1), c \in RefinerContents}

RefinerBatches == UNION {RefinerBatchesOfLen(n) : n \in 0..MaxBatch}

InitRefiner ==
    /\ op = "init"
    /\ documents_content \in RefinerBatches
    /\ persona = "Researcher" /\ job \in RankJobs
    /\ text = "" /\ tokens = <<>> /\ score = Zero
    /\ content = <<>> /\ sections = <<>>
    /\ all_sections = <<>>
    /\ scored_sections = <<>> /\ relevant_sections = <<>>
    /\ doc = [toc |-> <<>>, pages |-> <<>>] /\ headings = <<>>
    /\ NoTitle /\ NoSubsections /\ NoRun

\* round1b.py lines 76-79
AnalyzeSubsections ==
    /\ op = "init"
    /\ op' = "_analyze_subsections"
    /\ \E order \in analysis_iterations(documents_content, persona, job) :
       \E r \in {extract_relevant_sections_locals(documents_content, persona, job,
                                                  order)} :
           /\ all_sections' = r.all_sections
           /\ scored_sections' = r.scored_sections
           /\ relevant_sections' = r.result
           /\ subsections' = _analyze_subsections(r.result, persona, job, order)
    /\ UNCHANGED <<text, persona, job, tokens, score, content, sections,
                   documents_content, doc, headings, title_vars, run_vars>>

NextRefiner == AnalyzeSubsections

SpecRefiner == InitRefiner /\ [][NextRefiner]_vars

-----------------------------------------------------------------------------
(* Claims about the Subsection Refiner, checked under SpecRefiner          *)

\* the body, before the cut to 500 characters, of the k-th ranked section:
\* the sort of line 120 is a permutation of all_sections, and
\* scored_sections[k] is the dict of the section at SortedFrom(k)
SortedFrom(k, order) ==
    CHOOSE i \in 1..Len(all_sections) :
        /\ scored_section(all_sections[i], persona, job, order) = scored_sections[k]
        /\ Cardinality({j \in 1..(i - 1) :
               scored_section(all_sections[j], persona, job, order)
               = scored_sections[k]})
           = Cardinality({j \in 1..(k - 1) : scored_sections[j] = scored_sections[k]})
FullBody(k, order) == all_sections[SortedFrom(k, order)].text

\* the ranked sections with their bodies before the cut
SectionsWithFullBody(order) ==
    [k \in 1..Len(relevant_sections) |->
        [relevant_sections[k] EXCEPT !.text = FullBody(k, order)]]

\* the sentences of the section bodies before the cut
RECURSIVE full_sentence_texts(_, _)
full_sentence_texts(all, k) ==
    IF k > Len(all) THEN <<>>
    ELSE long_sentences(re_split_sentences(all[k].text))
         \o full_sentence_texts(all, k + 1)

\* the orders of the loop of nlp_analyzer.py line 113 the process of the
\* state can have had: those that give its ranking, told apart also by the
\* sums they give for the sentences of the sections, cut or not
orders_of_run ==
    {order \in iterations_for([k \in 1..Len(all_sections) |-> all_sections[k].text]
                                 \o sentence_texts(all_sections, 1)
                                 \o full_sentence_texts(all_sections, 1),
                              key_terms_of(persona, job)) :
        scored_sections
        = extract_relevant_sections_locals(documents_content, persona, job,
                                           order).scored_sections}

\* C21: the key points of the top 10 ranked sections are extracted from
\* their bodies before the cut to 500 characters: subsection_analysis is
\* what _analyze_subsections gives on the ranked sections with their full
\* bodies, so that a sentence beyond character 500 can be a key point.
C21_KeyPointsFromFullBody ==
    op = "_analyze_subsections" =>
        \E order \in orders_of_run :
            subsections = _analyze_subsections(SectionsWithFullBody(order),
                                               persona, job, order)

\* one section of 594 characters whose sentence about machine learning
\* trends, beyond character 500, is the best key point of the full body for
\* the job "understand machine learning trends": no excerpt has it
C21_SentenceBeyondCutLost ==
    /\ op = "_analyze_subsections"
    /\ job = "understand machine learning trends"
    /\ Len(relevant_sections) = 1
    /\ orders_of_run # {}
    /\ \A order \in orders_of_run :
          /\ Len(FullBody(1, order)) > 500
          /\ ~contains(prefix(FullBody(1, order), 500), SentML)
          /\ _extract_key_points(FullBody(1, order), persona, job, order)[1] = SentML
    /\ subsections # <<>>
    /\ \A k \in 1..Len(subsections) : ~contains(subsections[k].refined_text, "machine")

\* C22: every refined_text of subsection_analysis ends with exactly one
\* period.
C22_EndsWithOnePeriod ==
    op = "_analyze_subsections" =>
        \A k \in 1..Len(subsections) :
            /\ endswith(subsections[k].refined_text, ".")
            /\ ~endswith(subsections[k].refined_text, "..")

\* the sentence of 25 characters is a key point and its refined_text is the
\* sentence itself, without a period
C22_ShortKeyPointWithoutPeriod ==
    /\ op = "_analyze_subsections"
    /\ \E k \in 1..Len(subsections) : subsections[k].refined_text = SentShort
    /\ \E k \in 1..Len(subsections) :
          subsections[k].refined_text = SentML \o "."

\* the ranked sections the refiner looks at
TopSections == 1..Min(10, Len(relevant_sections))

KeyPoints(k, order) ==
    _extract_key_points(relevant_sections[k].text, persona, job, order)

\* the key points of the sections the refiner looks at
TopKeyPoints(order) == [k \in TopSections |-> KeyPoints(k, order)]

\* the excerpts before the sort, as <<section, index of the key point>>,
\* the index counted from 0, in the order of their insertion
RECURSIVE InsertionOrder(_, _)
InsertionOrder(kp, k) ==
    IF k \notin DOMAIN kp THEN <<>>
    ELSE [i \in 1..Len(kp[k]) |-> <<k, i - 1>>] \o InsertionOrder(kp, k + 1)

\* the place of the n-th inserted excerpt after a stable descending sort
\* of the excerpts with these scores
PlaceOf(scores, n) ==
    Cardinality({m \in 1..Len(scores) : scores[m] > scores[n]})
    + Cardinality({m \in 1..(n - 1) : scores[m] = scores[n]}) + 1

\* C23: the i-th key point (from 0) of a top-10 section with k key points
\* has relevance_score k - i, an integer from 1 to 5; subsection_analysis
\* holds at most 15 excerpts, in non-increasing order of relevance_score,
\* equal scores in the order of insertion, and no excerpt left out has a
\* higher relevance_score than one that is kept.
C23_CountdownScores ==
    op = "_analyze_subsections" =>
        \E order \in analysis_iterations(documents_content, persona, job) :
        \A kp \in {TopKeyPoints(order)} :
        \A inserted \in {InsertionOrder(kp, 1)} :
        \A scores \in {[n \in 1..Len(inserted) |->
                          Len(kp[inserted[n][1]]) - inserted[n][2]]} :
            /\ Len(subsections) = Min(15, Len(inserted))
            /\ \A k \in TopSections : Len(kp[k]) <= 5
            /\ \A n \in 1..Len(inserted) :
                  LET e == inserted[n]
                      place == PlaceOf(scores, n)
                  IN  /\ scores[n] \in 1..5
                      /\ place <= 15 =>
                            /\ subsections[place].relevance_score = scores[n]
                            /\ subsections[place].document = relevant_sections[e[1]].document
                            /\ subsections[place].page_number = relevant_sections[e[1]].page_number
                            /\ subsections[place].refined_text =
                                  refine_text_for_persona(kp[e[1]][e[2] + 1],
                                                          persona, job, order)
                      /\ place > 15 =>
                            \A k \in 1..Len(subsections) :
                                subsections[k].relevance_score >= scores[n]
            /\ \A k \in 1..(Len(subsections) - 1) :
                  subsections[k].relevance_score >= subsections[k + 1].relevance_score

\* a section of six sentences gives five key points, 17 excerpts are
\* inserted and 15 kept: the first has relevance_score 5, and excerpts of
\* different sections with relevance_score 2 follow each other
C23_Witness ==
    /\ op = "_analyze_subsections"
    /\ \E order \in orders_of_run :
          Len(InsertionOrder(TopKeyPoints(order), 1)) = 17
    /\ Len(subsections) = 15
    /\ subsections[1].relevance_score = 5
    /\ \E k \in 1..14 :
          /\ subsections[k].relevance_score = 2
          /\ subsections[k + 1].relevance_score = 2
          /\ subsections[k].document # subsections[k + 1].document


(***************************************************************************)
(* The domain score and the weighted sum of calculate_relevance, checked   *)
(* under SpecNLP                                                           *)

\* the elements of a list, each once
elements(list) == {list[i] : i \in 1..Len(list)}

\* the keywords of every domain named in the persona, or the job's tokens
keyword_list(pers, jb) ==
    LET detected == domain_list(lower(pers), 1)
    IN  IF detected = <<>> THEN _tokenize_and_clean(jb) ELSE detected

\* the share of the distinct keywords that occur in the lower-cased text
score_over_keyword_set(txt, pers, jb) ==
    LET keyword_set == elements(keyword_list(pers, jb))
        found == {k \in keyword_set : contains(lower(txt), k)}
    IN  IF keyword_set # {}
        THEN truediv(Cardinality(found), Cardinality(keyword_set))
        ELSE Zero

\* a score was computed from the four sub-scores (lines 55-66 were reached)
Scored ==
    /\ op = "calculate_relevance"
    /\ text # "" /\ strip(text) # ""
    /\ _tokenize_and_clean(lower(text)) # <<>>

\* C24: the domain score is the number of distinct keywords found in the
\* lower-cased text divided by the number of distinct keywords, a keyword of
\* two matching domains or a repeated job word counting once; it is 0 when
\* there is no keyword.
C24_DomainScoreOverKeywordSet ==
    Scored => _calculate_domain_relevance(text, persona, job)
                  = score_over_keyword_set(text, persona, job)

\* 'data' is a keyword of researcher and of analyst: the code counts it twice
\* among 20 list entries, the keyword set has 18 members
C24_SharedKeywordCountedTwice ==
    /\ Scored
    /\ persona = "Researcher analyst"
    /\ text = "machine data1"
    /\ Len(keyword_list(persona, job)) = 20
    /\ Cardinality(elements(keyword_list(persona, job))) = 18
    /\ _calculate_domain_relevance(text, persona, job) = truediv(2, 20)
    /\ score_over_keyword_set(text, persona, job) = truediv(1, 18)

\* relevance_score of lines 59-64, before min(relevance_score, 1.0)
relevance_score_of(txt, pers, jb, order) ==
    LET text_tokens == _tokenize_and_clean(lower(txt))
        persona_tokens == _tokenize_and_clean(lower(pers))
        job_tokens == _tokenize_and_clean(lower(jb))
    IN  relevance_sum(_calculate_token_overlap(text_tokens, persona_tokens),
                      _calculate_token_overlap(text_tokens, job_tokens),
                      _calculate_tfidf_score(text_tokens, persona_tokens \o job_tokens,
                                             order),
                      _calculate_domain_relevance(txt, pers, jb))

\* C25 as stated: for some text, persona and job (those of the state or any
\* other of the inputs) the weighted sum of the four sub-scores exceeds 1.0
\* before the final min is applied.
C25_SumExceedsOneForSomeInput ==
    \E t \in Texts \cup {text}, p \in Personas \cup {persona}, j \in Jobs \cup {job} :
        /\ t # "" /\ strip(t) # "" /\ _tokenize_and_clean(lower(t)) # <<>>
        /\ \E order \in iterations_for(<<t>>, key_terms_of(p, j)) :
              FLess(One, relevance_score_of(t, p, j, order))

\* C25: every sub-score is at most 1 and the weights add up to 1, so the
\* weighted sum never exceeds 1.0 and the final min returns it unchanged.
C25_SumNeverExceedsOne ==
    Scored =>
        /\ \A order \in iterations_for(<<text>>, key_terms_of(persona, job)) :
              FLeq(relevance_score_of(text, persona, job, order), One)
        /\ \E order \in iterations_for(<<text>>, key_terms_of(persona, job)) :
              score = relevance_score_of(text, persona, job, order)

\* the largest sum: the text has exactly the tokens of the persona and of the
\* job, and every keyword (the job's tokens) occurs in it
C25_Witness ==
    /\ Scored
    /\ persona = "machine learning" /\ job = "machine learning"
    /\ overlap_with(text, persona) = One /\ overlap_with(text, job) = One
    /\ _calculate_domain_relevance(text, persona, job) = One
    /\ \A order \in iterations_for(<<text>>, key_terms_of(persona, job)) :
          /\ ~FLess(relevance_score_of(text, persona, job, order),
                    relevance_sum(One, One, One, One))
          /\ score = relevance_score_of(text, persona, job, order)

-----------------------------------------------------------------------------
(* The plausibility filter and the font-size test of the layout mode,      *)
(* checked under SpecHeadings                                              *)

\* the texts of the lines of the document
LineTexts == {line_text_of(l.spans) : l \in Range(lines_from(doc.pages, 1))}

\* the text meets no exclusion of the filter (lines 371-411)
MeetsNoExclusion(txt) ==
    /\ ~excluded(strip(lower(txt)))
    /\ ~looks_like_url(strip(lower(txt)))
    /\ Len(txt) <= 150
    /\ ~(endswith(txt, ".") /\ count(txt, ".") > 1)

\* the positive heading patterns as they are named: numbered, a chapter,
\* section or round heading, a phrase in title case, a text beginning in
\* capitals, one of the three keywords
NamedHeadingPattern(txt) ==
    \/ (numbered_prefix(txt) > 0 /\ In(txt, numbered_prefix(txt), WORD))
    \/ (startswith(lower(txt), "chapter ") /\ In(txt, 9, DIGIT))
    \/ (startswith(lower(txt), "section ") /\ In(txt, 9, DIGIT))
    \/ (startswith(lower(txt), "round ") /\ In(txt, 7, DIGIT))
    \/ LET e == WordsEnd(txt, 1, UPPER, LOWER)
       IN  e > 0 /\ (AtDollar(txt, e) \/ (At(txt, e, ":") /\ AtDollar(txt, e + 1)))
    \/ (In(txt, 1, UPPER) /\ In(txt, 2, UPPER))
    \/ \E w \in {"challenge", "hackathon", "appendix"} : contains(lower(txt), w)

\* C26: a text that meets no exclusion, is none of the positive heading
\* patterns and does not end with a colon is accepted by the plausibility
\* filter exactly when it has at most 12 words and does not end in a comma
\* or a period; written in lower case with more than 12 words it is rejected.
C26_DefaultBranchDecides ==
    (op = "_extract_headings" /\ doc.toc = <<>>) =>
        \A txt \in LineTexts :
            (MeetsNoExclusion(txt) /\ ~NamedHeadingPattern(txt) /\ ~endswith(txt, ":"))
                => (_is_likely_heading(txt)
                       <=> /\ word_count(txt) <= 12
                           /\ ~endswith(txt, ",")
                           /\ ~endswith(txt, "."))

\* a line of 16 words in lower case is accepted and becomes a heading: with
\* re.IGNORECASE the pattern ^[A-Z]{2,} is found in any text that begins
\* with two letters
C26_LongLowerCaseLineAccepted ==
    /\ op = "_extract_headings" /\ doc.toc = <<>>
    /\ LongLowerCase \in LineTexts
    /\ word_count(LongLowerCase) = 16
    /\ lower(LongLowerCase) = LongLowerCase
    /\ MeetsNoExclusion(LongLowerCase) /\ ~NamedHeadingPattern(LongLowerCase)
    /\ _is_likely_heading(LongLowerCase)
    /\ \E i \in 1..Len(headings) : headings[i].text = LongLowerCase

\* the document has no table of contents and at most three distinct positive
\* font sizes
AtMostThreeSizes ==
    /\ doc.toc = <<>>
    /\ Cardinality(Range(collect_font_sizes(doc.pages))) <= 3

\* the line has 4 to 199 characters and passes the URL filter and the
\* plausibility filter (lines 275-282)
PassesLineFilters(l) ==
    LET line_text == line_text_of(l.spans)
    IN  /\ ~(\/ search_http(line_text)
             \/ contains(lower(line_text), "github.com")
             \/ endswith(line_text, ".git"))
        /\ Len(line_text) > 3 /\ Len(line_text) < 200
        /\ _is_likely_heading(line_text)

\* the outline has one entry for each of the lines, in their order, with the
\* text and the page of the line
OutlineOf(lines) ==
    /\ Len(headings) = Len(lines)
    /\ \A i \in 1..Len(lines) :
          /\ headings[i].text = line_text_of(lines[i].spans)
          /\ headings[i].page = lines[i].page

\* C28 as stated: with at most three distinct positive font sizes every line
\* of 4 to 199 characters that passes the URL filter and the plausibility
\* filter is a heading, in the order of the document, bold or not and with
\* or without a structural pattern.
C28_EveryPlausibleLineIsHeading ==
    (op = "_extract_headings" /\ AtMostThreeSizes) =>
        OutlineOf(SelectSeq(lines_from(doc.pages, 1), PassesLineFilters))

\* the document has one positive font size and the mean of its spans'
\* sizes, as sum / len computes it, is above that size
MeanAboveSize(font_sizes) ==
    /\ Cardinality(Range(font_sizes)) = 1
    /\ FLess(font_sizes[1], FDivInt(sum(font_sizes, Len(font_sizes)), Len(font_sizes)))

\* the document has two positive font sizes, the smaller one at most 1
SmallerSizeAtMostOne(font_sizes) ==
    /\ Cardinality(Range(font_sizes)) = 2
    /\ \A x \in Range(font_sizes) :
          FLeq(x, One) \/ \E y \in Range(font_sizes) : FLess(y, x)

\* C28 amended: with one to three distinct positive font sizes the third
\* threshold is not above the smallest of them unless there is one size
\* and the mean computed for it is above it.  The headings are, in the
\* order of the document, the lines that pass the filters and are bold,
\* match a structural pattern, have a span with a positive font size (when
\* the mean is not above the one size) or have none (when the smaller of
\* two sizes is at most 1); with no positive font size there is no heading.
C28_EveryPlausibleSizedLineIsHeading ==
    (op = "_extract_headings" /\ AtMostThreeSizes) =>
        \A font_sizes \in {AsList(collect_font_sizes(doc.pages))} :
            IF font_sizes = <<>> THEN headings = <<>>
            ELSE \A sized \in {~MeanAboveSize(font_sizes)},
                    unsized \in {SmallerSizeAtMostOne(font_sizes)} :
                 /\ sized => \A i \in 1..Len(font_sizes) :
                       FGeq(font_sizes[i], heading_thresholds(font_sizes)[3])
                 /\ OutlineOf(SelectSeq(lines_from(doc.pages, 1),
                        LAMBDA l : /\ PassesLineFilters(l)
                                   /\ \/ IF FLess(Zero, max_font_size_of(l.spans, 1))
                                         THEN sized ELSE unsized
                                      \/ is_bold_line(l.spans)
                                      \/ _has_heading_patterns(line_text_of(l.spans))))

\* three font sizes, and the long line in the smallest of them, not bold and
\* without a structural pattern, is a heading
C28_Witness ==
    /\ op = "_extract_headings" /\ AtMostThreeSizes
    /\ Cardinality(Range(collect_font_sizes(doc.pages))) = 3
    /\ \E l \in Range(lines_from(doc.pages, 1)) :
          /\ l.spans = <<Span(LongLowerCase, 10, 0)>>
          /\ ~is_bold_line(l.spans)
          /\ ~_has_heading_patterns(LongLowerCase)
          /\ \E i \in 1..Len(headings) :
                headings[i].text = LongLowerCase /\ headings[i].page = l.page

-----------------------------------------------------------------------------
(* The pages of the Section Segmenter, checked under SpecSegmenter         *)

\* the lines of page p that are not blank, stripped
PageLines(p) ==
    LET lines == split(content[p], "\n")
    IN  SelectSeq([i \in 1..Len(lines) |-> strip(lines[i])], LAMBDA line : line # "")

\* the lines i to j, each followed by a blank
RECURSIVE RunText(_, _, _)
RunText(lines, i, j) ==
    IF i > j THEN "" ELSE lines[i] \o " " \o RunText(lines, i + 1, j)

\* the body of the section is made of consecutive lines of its page
BodyFromItsPage(s) ==
    \A lines \in {PageLines(s.page)} :
        \E i \in 1..Len(lines) : \E j \in i..Len(lines) :
            s.text = strip(RunText(lines, i, j))

\* the title of the section is "Introduction" or a heading line of its page
TitleFromItsPage(s) ==
    \/ s.title = "Introduction"
    \/ \E i \in 1..Len(PageLines(s.page)) :
          PageLines(s.page)[i] = s.title /\ is_header(s.title)

\* the sections of each page taken as a document of its own, from page p on
RECURSIVE PageByPage(_)
PageByPage(p) ==
    IF p > Len(content) THEN <<>>
    ELSE LET alone == _identify_sections(<<content[p]>>, "doc.pdf")
         IN  [i \in 1..Len(alone) |-> [alone[i] EXCEPT !.page = p]] \o PageByPage(p + 1)

\* C27: sections are page-scoped.  Every page starts with a fresh
\* accumulator titled "Introduction" with an empty body: the sections of a
\* document are those of its pages taken one by one, the body of a section
\* is made of lines of its page only, and its title is "Introduction" or a
\* heading of that page, never a heading of an earlier page.
C27_SectionsPageScoped ==
    op = "_identify_sections" =>
        /\ sections = PageByPage(1)
        /\ \A k \in 1..Len(sections) :
              /\ sections[k].page \in 1..Len(content)
              /\ BodyFromItsPage(sections[k])
              /\ TitleFromItsPage(sections[k])

\* the first page ends with a heading that has opened a section, and the
\* body of the second page is a section named "Introduction"
C27_Witness ==
    /\ op = "_identify_sections"
    /\ content = <<"short\nHEADER ONE", Body(150)>>
    /\ is_header("HEADER ONE")
    /\ sections = <<[document |-> "doc.pdf", page |-> 2,
                     title |-> "Introduction", text |-> Body(150)]>>

=============================================================================
